---- MODULE Spec2Model ----
(***************************************************************************)
(* Neon-Store-Backend: the meme catalogue (MongoDB collection "memes") and *)
(* the handlers of src/routes/memes.js that read and write it.             *)
(*                                                                         *)
(* Strings are sequences of one-character strings, so that substring       *)
(* search, whitespace splitting, lower-casing and regular-expression       *)
(* matching are computed the way the JavaScript code computes them.        *)
(* Times are clock readings in ticks; DayTicks ticks make one day          *)
(* (the code's 1000*60*60*24 ms), so ages are fractional days.             *)
(***************************************************************************)
EXTENDS Integers, Sequences, FiniteSets, TLC

VARIABLES memes, now, reqs, search, trend, popular, listing, validated,
          store, assist, uploaded, conn, auth, sweep

vars == <<memes, now, reqs, search, trend, popular, listing, validated,
          store, assist, uploaded, conn, auth, sweep>>

(***************************************************************************)
(* Bounds of the model.                                                    *)
(***************************************************************************)
MaxMemes == 2
MaxReqs == 2
MaxVotes == 2

(***************************************************************************)
(* Generic helpers.                                                        *)
(***************************************************************************)
Range(s) == {s[i] : i \in DOMAIN s}

Min(a, b) == IF a < b THEN a ELSE b

Max(a, b) == IF a > b THEN a ELSE b

SeqsUpTo(S, n) == UNION {[1..k -> S] : k \in 0..n}

(***************************************************************************)
(* Strings.                                                                *)
(***************************************************************************)
\* String.prototype.toLowerCase on one character of the model's alphabet.
ToLowerChar(c) ==
    CASE c = "A" -> "a"
      [] c = "B" -> "b"
      [] OTHER -> c

ToLowerCase(s) == [i \in DOMAIN s |-> ToLowerChar(s[i])]

\* String.prototype.includes: w occurs in s as a contiguous substring.
Includes(s, w) ==
    \E off \in 0..(Len(s) - Len(w)) :
        \A j \in 1..Len(w) : s[off + j] = w[j]

IsSpace(c) == c = " "

\* String.prototype.trim.
RECURSIVE TrimLeft(_)
TrimLeft(s) ==
    IF s # <<>> /\ IsSpace(Head(s)) THEN TrimLeft(Tail(s)) ELSE s

RECURSIVE TrimRight(_)
TrimRight(s) ==
    IF s # <<>> /\ IsSpace(s[Len(s)])
    THEN TrimRight(SubSeq(s, 1, Len(s) - 1))
    ELSE s

Trim(s) == TrimRight(TrimLeft(s))

(***************************************************************************)
(* The catalogue.  A record's _id is its index in memes (insertion order). *)
(***************************************************************************)
MemeDoc(tags, description, t) ==
    [image_url |-> "img", tags |-> tags, description |-> description,
     upvotes |-> 0, downloads |-> 0, createdAt |-> t, updatedAt |-> t]

\* db.collection("memes").insertOne(memeData)
InsertOne(coll, doc) == Append(coll, doc)

\* POST /upload (native driver): tags are stored as the tag generator returned
\* them, description is the value reached at line 730 (client text, generated
\* text or the fallback) lower-cased; both counters start at 0.
Upload(tags, description) ==
    /\ Len(memes) < MaxMemes
    /\ memes' = InsertOne(memes, MemeDoc(tags, ToLowerCase(description), now))
    /\ UNCHANGED <<now, reqs, search, trend, popular, listing, validated,
                   store, assist, uploaded, conn, auth, sweep>>

(***************************************************************************)
(* Counter requests: POST /update-upvote and POST /track-downloads.        *)
(* memeId is the request body field: 0 stands for a missing or empty value *)
(* (falsy), -1 for a string that is no 24-hex ObjectId, and k >= 1 for a   *)
(* well-formed ObjectId, which names a stored record iff k indexes memes.  *)
(***************************************************************************)
ReqIds == 1..MaxReqs

MemeIdInputs == (-1)..(MaxMemes + 1)

IdleReq == [pc |-> "idle", kind |-> "none", memeId |-> 0, read |-> 0,
            status |-> 0, value |-> 0]

Respond(r, kind, memeId, status, value) ==
    [reqs EXCEPT ![r] = [pc |-> "done", kind |-> kind, memeId |-> memeId,
                         read |-> 0, status |-> status, value |-> value]]

\* new ObjectId(memeId) / Mongoose's cast of memeId: throws on a malformed id.
ValidObjectId(memeId) == memeId >= 1

\* The record with that _id exists.
Found(coll, memeId) == memeId \in DOMAIN coll

\* Faulty variant of the update below: the record's downloads are reset.
IncUpvotesResettingDownloads(coll, id, t) ==
    [coll EXCEPT ![id].upvotes = @ + 1, ![id].downloads = 0, ![id].updatedAt = t]

\* findOneAndUpdate({_id}, {$inc: {upvotes: 1}, $set: {updatedAt: new Date()}})
IncUpvotes(coll, id, t) ==
    [coll EXCEPT ![id].upvotes = @ + 1, ![id].updatedAt = t]

\* findOneAndUpdate({_id}, {$inc: {downloads: 1}, $set: {updatedAt: new Date()}})
IncDownloads(coll, id, t) ==
    [coll EXCEPT ![id].downloads = @ + 1, ![id].updatedAt = t]

\* Mongoose document.save() after `meme.upvotes += 1`: the modified path is
\* written back with the value computed from the earlier read ($set).
SaveUpvotes(coll, id, value) ==
    [coll EXCEPT ![id].upvotes = value]

\* findByIdAndUpdate(memeId, {$inc: {downloads: 1}}, {new: true})
MongooseIncDownloads(coll, id) ==
    [coll EXCEPT ![id].downloads = @ + 1]

\* POST /update-upvote, native driver version: one atomic findOneAndUpdate.
UpdateUpvote(r, memeId) ==
    /\ reqs[r].pc = "idle"
    /\ IF memeId = 0 THEN
           /\ reqs' = Respond(r, "upvote", memeId, 400, 0)
           /\ UNCHANGED memes
       ELSE IF ~ValidObjectId(memeId) THEN
           /\ reqs' = Respond(r, "upvote", memeId, 500, 0)
           /\ UNCHANGED memes
       ELSE IF ~Found(memes, memeId) THEN
           /\ reqs' = Respond(r, "upvote", memeId, 404, 0)
           /\ UNCHANGED memes
       ELSE
           /\ memes[memeId].upvotes < MaxVotes
           /\ memes' = IncUpvotes(memes, memeId, now)
           /\ reqs' = Respond(r, "upvote", memeId, 200, memes'[memeId].upvotes)
    /\ UNCHANGED <<now, search, trend, popular, listing, validated,
                   store, assist, uploaded, conn, auth, sweep>>

\* POST /track-downloads, native driver version.
TrackDownloads(r, memeId) ==
    /\ reqs[r].pc = "idle"
    /\ IF memeId = 0 THEN
           /\ reqs' = Respond(r, "download", memeId, 400, 0)
           /\ UNCHANGED memes
       ELSE IF ~ValidObjectId(memeId) THEN
           /\ reqs' = Respond(r, "download", memeId, 500, 0)
           /\ UNCHANGED memes
       ELSE IF ~Found(memes, memeId) THEN
           /\ reqs' = Respond(r, "download", memeId, 404, 0)
           /\ UNCHANGED memes
       ELSE
           /\ memes[memeId].downloads < MaxVotes
           /\ memes' = IncDownloads(memes, memeId, now)
           /\ reqs' = Respond(r, "download", memeId, 200, memes'[memeId].downloads)
    /\ UNCHANGED <<now, search, trend, popular, listing, validated,
                   store, assist, uploaded, conn, auth, sweep>>

\* POST /update-upvote, Mongoose version, up to the end of `await
\* Meme.findById(memeId)`: the document is read into the handler.
MongooseUpvoteFind(r, memeId) ==
    /\ reqs[r].pc = "idle"
    /\ IF memeId = 0 THEN reqs' = Respond(r, "upvote", memeId, 400, 0)
       ELSE IF ~ValidObjectId(memeId) THEN reqs' = Respond(r, "upvote", memeId, 500, 0)
       ELSE IF ~Found(memes, memeId) THEN reqs' = Respond(r, "upvote", memeId, 404, 0)
       ELSE reqs' = [reqs EXCEPT ![r] = [pc |-> "save", kind |-> "upvote",
                                          memeId |-> memeId,
                                          read |-> memes[memeId].upvotes,
                                          status |-> 0, value |-> 0]]
    /\ UNCHANGED <<memes, now, search, trend, popular, listing, validated,
                   store, assist, uploaded, conn, auth, sweep>>

\* ... `meme.upvotes += 1; await meme.save()` and the response.
MongooseUpvoteSave(r) ==
    /\ reqs[r].pc = "save"
    /\ reqs[r].read < MaxVotes
    /\ memes' = SaveUpvotes(memes, reqs[r].memeId, reqs[r].read + 1)
    /\ reqs' = Respond(r, "upvote", reqs[r].memeId, 200, reqs[r].read + 1)
    /\ UNCHANGED <<now, search, trend, popular, listing, validated,
                   store, assist, uploaded, conn, auth, sweep>>

\* POST /track-downloads, Mongoose version: one atomic findByIdAndUpdate.
MongooseTrackDownloads(r, memeId) ==
    /\ reqs[r].pc = "idle"
    /\ IF memeId = 0 THEN
           /\ reqs' = Respond(r, "download", memeId, 400, 0)
           /\ UNCHANGED memes
       ELSE IF ~ValidObjectId(memeId) THEN
           /\ reqs' = Respond(r, "download", memeId, 500, 0)
           /\ UNCHANGED memes
       ELSE IF ~Found(memes, memeId) THEN
           /\ reqs' = Respond(r, "download", memeId, 404, 0)
           /\ UNCHANGED memes
       ELSE
           /\ memes[memeId].downloads < MaxVotes
           /\ memes' = MongooseIncDownloads(memes, memeId)
           /\ reqs' = Respond(r, "download", memeId, 200, memes'[memeId].downloads)
    /\ UNCHANGED <<now, search, trend, popular, listing, validated,
                   store, assist, uploaded, conn, auth, sweep>>

(***************************************************************************)
(* GET /search (native driver version; the Mongoose version computes the   *)
(* same query, page and score).                                            *)
(* q is the query string; <<>> stands for both a missing and an empty q    *)
(* (`!q` holds for both).  page and limit are numeric query values.        *)
(***************************************************************************)
\* String.prototype.split(/\s+/): cur is the piece being read at index i.
RECURSIVE SplitFrom(_, _, _)
SplitFrom(s, i, cur) ==
    IF i > Len(s) THEN <<cur>>
    ELSE IF IsSpace(s[i])
         THEN IF i > 1 /\ IsSpace(s[i - 1])
              THEN SplitFrom(s, i + 1, cur)
              ELSE <<cur>> \o SplitFrom(s, i + 1, <<>>)
         ELSE SplitFrom(s, i + 1, Append(cur, s[i]))

SplitWhitespace(s) == SplitFrom(s, 1, <<>>)

\* Faulty variant of the filter below: single characters are kept.
KeepAnyWord(word) == Trim(word) # <<>>

\* The filter of line 798: drop empty strings and single characters.
KeepWord(word) == Trim(word) # <<>> /\ Len(word) > 1

\* const searchWords = q.toLowerCase().split(/\s+/).filter(...)
SearchWords(q) == SelectSeq(SplitWhitespace(ToLowerCase(q)), KeepWord)

\* Array.prototype.join
RECURSIVE Join(_, _)
Join(words, sep) ==
    IF words = <<>> THEN <<>>
    ELSE IF Len(words) = 1 THEN words[1]
    ELSE words[1] \o <<sep>> \o Join(Tail(words), sep)

\* new RegExp(src) throws a SyntaxError when the source ends in a backslash
\* that escapes nothing.  (Sources are made of literals, ".", "|" and "\".)
RECURSIVE RegexValidFrom(_, _)
RegexValidFrom(src, i) ==
    IF i > Len(src) THEN TRUE
    ELSE IF src[i] = "\\"
         THEN i < Len(src) /\ RegexValidFrom(src, i + 2)
         ELSE RegexValidFrom(src, i + 1)

RegexValid(src) == RegexValidFrom(src, 1)

\* The atoms of a pattern: "." matches any character; every other character,
\* and every character written after a backslash, matches itself.
AnyChar == [any |-> TRUE, ch |-> "."]

Literal(c) == [any |-> FALSE, ch |-> c]

\* The alternatives of a regular-expression source: split at every "|" that
\* no backslash escapes.
RECURSIVE AlternativesFrom(_, _, _)
AlternativesFrom(src, i, cur) ==
    IF i > Len(src) THEN <<cur>>
    ELSE IF src[i] = "\\" /\ i < Len(src)
         THEN AlternativesFrom(src, i + 2, Append(cur, Literal(src[i + 1])))
    ELSE IF src[i] = "|"
         THEN <<cur>> \o AlternativesFrom(src, i + 1, <<>>)
    ELSE IF src[i] = "."
         THEN AlternativesFrom(src, i + 1, Append(cur, AnyChar))
         ELSE AlternativesFrom(src, i + 1, Append(cur, Literal(src[i])))

Alternatives(src) == AlternativesFrom(src, 1, <<>>)

\* One pattern atom against one subject character under the i flag.
AtomMatches(atom, c) == atom.any \/ ToLowerChar(atom.ch) = ToLowerChar(c)

\* new RegExp(src, 'i').test(s) for valid sources made of literals, ".",
\* "|" and backslash escapes of those characters.
RegexTest(src, s) ==
    LET alts == Alternatives(src)
    IN \E k \in DOMAIN alts :
           \E off \in 0..(Len(s) - Len(alts[k])) :
               \A j \in 1..Len(alts[k]) : AtomMatches(alts[k][j], s[off + j])

\* const combinedRegex = new RegExp(searchWords.join('|'), 'i')
CombinedRegex(searchWords) == Join(searchWords, "|")

\* searchQuery = {$or: [{tags: {$regex}}, {description: {$regex}}]}: a $regex
\* on an array field holds when some element matches.
SearchQuery(doc, combinedRegex) ==
    \/ \E t \in DOMAIN doc.tags : RegexTest(combinedRegex, doc.tags[t])
    \/ RegexTest(combinedRegex, doc.description)

\* The _ids a filter selects.
Matching(coll, combinedRegex) ==
    {id \in DOMAIN coll : SearchQuery(coll[id], combinedRegex)}

\* Cursor order of sort({createdAt: -1}) over the ids in S: any order with
\* createdAt descending (the server fixes no order among equal keys).
Orders(S) ==
    {p \in [1..Cardinality(S) -> S] : \A i, j \in DOMAIN p : i # j => p[i] # p[j]}

SortedByCreatedAt(coll, S) ==
    {p \in Orders(S) :
        \A i, j \in DOMAIN p : i < j => coll[p[i]].createdAt >= coll[p[j]].createdAt}

\* cursor.skip(skip).limit(limit)
SkipLimit(seq, skip, limit) ==
    SubSeq(seq, skip + 1, Min(Len(seq), skip + limit))

\* FindCursor.limit(0) sets no limit; the server rejects a negative skip.
CursorSkipLimit(seq, skip, limit) ==
    IF limit = 0 THEN SubSeq(seq, skip + 1, Len(seq))
    ELSE SkipLimit(seq, skip, limit)

\* Math.ceil(total / limit) as JSON: Infinity and NaN are written as null,
\* held here as -1.
Pages(total, limit) ==
    IF limit = 0 THEN -1 ELSE (total + limit - 1) \div limit

\* tagMatches: the tags in which some search word occurs.
TagMatches(doc, searchWords) ==
    Len(SelectSeq(doc.tags,
                  LAMBDA tag : \E w \in DOMAIN searchWords :
                      Includes(ToLowerCase(tag), ToLowerCase(searchWords[w]))))

\* descriptionMatches: the search words that occur in the description.
DescriptionMatches(doc, searchWords) ==
    IF doc.description # <<>>
    THEN Len(SelectSeq(searchWords,
                       LAMBDA word : Includes(ToLowerCase(doc.description),
                                              ToLowerCase(word))))
    ELSE 0

RelevanceScore(doc, searchWords) ==
    (DescriptionMatches(doc, searchWords) * 2) + TagMatches(doc, searchWords)

\* The comparator of memesWithRelevance.sort: a goes before b.
RelevanceBefore(a, b) ==
    IF b.relevanceScore # a.relevanceScore
    THEN b.relevanceScore < a.relevanceScore
    ELSE b.createdAt < a.createdAt

\* Array.prototype.sort with that comparator (stable: equal entries keep
\* their order), by insertion.
RECURSIVE InsertByRelevance(_, _)
InsertByRelevance(x, sorted) ==
    IF sorted = <<>> THEN <<x>>
    ELSE IF RelevanceBefore(x, Head(sorted))
         THEN <<x>> \o sorted
         ELSE <<Head(sorted)>> \o InsertByRelevance(x, Tail(sorted))

RECURSIVE SortByRelevance(_)
SortByRelevance(seq) ==
    IF seq = <<>> THEN <<>>
    ELSE InsertByRelevance(seq[Len(seq)], SortByRelevance(SubSeq(seq, 1, Len(seq) - 1)))

\* memesWithRelevance: one response entry per record of the page.
MemesWithRelevance(coll, page, searchWords) ==
    [i \in DOMAIN page |->
        [id |-> page[i],
         tags |-> coll[page[i]].tags,
         description |-> coll[page[i]].description,
         createdAt |-> coll[page[i]].createdAt,
         relevanceScore |-> RelevanceScore(coll[page[i]], searchWords)]]

IdleSearch ==
    [pc |-> "idle", q |-> <<>>, page |-> 0, limit |-> 0, searchWords |-> <<>>,
     skip |-> 0, found |-> <<>>, atFind |-> <<>>, atCount |-> <<>>,
     storeCalls |-> 0, status |-> 0, memes |-> <<>>, totalItems |-> 0,
     total |-> 0]

\* Lines 786-821: validation, tokenisation and `new RegExp` (which throws on
\* an invalid source: the catch answers 500), before `await connectToDB()`.
SearchStart(q, page, limit) ==
    /\ search.pc = "idle"
    /\ IF q = <<>> \/ SearchWords(q) = <<>>
       THEN search' = [IdleSearch EXCEPT !.pc = "done", !.q = q, !.page = page,
                                         !.limit = limit, !.status = 400]
       ELSE IF ~RegexValid(CombinedRegex(SearchWords(q)))
       THEN search' = [IdleSearch EXCEPT !.pc = "done", !.q = q, !.page = page,
                                         !.limit = limit,
                                         !.searchWords = SearchWords(q),
                                         !.status = 500]
       ELSE search' = [IdleSearch EXCEPT !.pc = "find", !.q = q, !.page = page,
                                         !.limit = limit,
                                         !.searchWords = SearchWords(q),
                                         !.skip = (page - 1) * limit]
    /\ UNCHANGED <<memes, now, reqs, trend, popular, listing, validated,
                   store, assist, uploaded, conn, auth, sweep>>

\* Lines 824-830: find(searchQuery).sort({createdAt: -1}).skip().limit().
SearchFind ==
    /\ search.pc = "find"
    /\ IF store = "down" \/ search.skip < 0
       THEN search' = [search EXCEPT !.pc = "done", !.status = 500,
                                     !.atFind = memes, !.storeCalls = @ + 1]
       ELSE \E order \in SortedByCreatedAt(memes,
                            Matching(memes, CombinedRegex(search.searchWords))) :
               search' = [search EXCEPT
                             !.pc = "count",
                             !.found = CursorSkipLimit(order, search.skip,
                                                       search.limit),
                             !.atFind = memes,
                             !.storeCalls = @ + 1]
    /\ UNCHANGED <<memes, now, reqs, trend, popular, listing, validated,
                   store, assist, uploaded, conn, auth, sweep>>

\* Lines 832-883: countDocuments(searchQuery), scoring, the in-memory sort of
\* the page and the response.
SearchCount ==
    /\ search.pc = "count"
    /\ IF store = "down"
       THEN search' = [search EXCEPT !.pc = "done", !.status = 500,
                                     !.atCount = memes, !.storeCalls = @ + 1]
       ELSE LET total == Cardinality(Matching(memes,
                                         CombinedRegex(search.searchWords)))
            IN search' = [search EXCEPT
                        !.pc = "done",
                        !.atCount = memes,
                        !.storeCalls = @ + 1,
                        !.status = 200,
                        !.memes = SortByRelevance(
                                     MemesWithRelevance(search.atFind, search.found,
                                                        search.searchWords)),
                        !.totalItems = total,
                        !.total = Pages(total, search.limit)]
    /\ UNCHANGED <<memes, now, reqs, trend, popular, listing, validated,
                   store, assist, uploaded, conn, auth, sweep>>

(***************************************************************************)
(* GET /trending (native driver version; the Mongoose version builds the   *)
(* same pipelines).  The pipelines compute in doubles; the model computes  *)
(* the same quotients as exact fractions num/den with den > 0.             *)
(***************************************************************************)
DayTicks == 2

TrendingWindowDays == 30

Frac(n, d) == [num |-> n, den |-> d]

FracOfInt(n) == Frac(n, 1)

\* $add and $divide on fractions (the divisor is positive).
FracAdd(a, b) == Frac(a.num * b.den + b.num * a.den, a.den * b.den)

FracDivide(a, b) == Frac(a.num * b.den, a.den * b.num)

FracLess(a, b) == a.num * b.den < b.num * a.den

FracLeq(a, b) == a.num * b.den <= b.num * a.den

\* $round: [x, places] for x >= 0, as the integer x * 10^places rounded to
\* the nearest integer, a half going to the even neighbour.
RoundScaled(x, scale) ==
    LET n == x.num * scale
        q == n \div x.den
        r == n % x.den
    IN IF 2 * r < x.den THEN q
       ELSE IF 2 * r > x.den THEN q + 1
       ELSE IF q % 2 = 0 THEN q ELSE q + 1

\* daysSinceCreation: {$divide: [{$subtract: [new Date(), '$createdAt']}, 1000*60*60*24]}
DaysSinceCreation(doc, t) == Frac(t - doc.createdAt, DayTicks)

\* Faulty variants of the score below: upvotes not doubled; no decay.
UnweightedTrendingScore(doc, t) ==
    FracDivide(FracOfInt(doc.upvotes + doc.downloads),
               FracAdd(DaysSinceCreation(doc, t), FracOfInt(1)))

UndecayedTrendingScore(doc, t) ==
    FracDivide(FracOfInt((doc.upvotes * 2) + doc.downloads), FracOfInt(1))

\* trendingScore: (upvotes * 2 + downloads) / (daysSinceCreation + 1)
TrendingScore(doc, t) ==
    FracDivide(FracOfInt((doc.upvotes * 2) + doc.downloads),
               FracAdd(DaysSinceCreation(doc, t), FracOfInt(1)))

\* Faulty variant of the match below: $lt in place of $lte.
StrictlyYounger(doc, t) ==
    FracLess(DaysSinceCreation(doc, t), FracOfInt(TrendingWindowDays))

\* {$match: {daysSinceCreation: {$lte: 30}}}
MatchTrending(doc, t) ==
    FracLeq(DaysSinceCreation(doc, t), FracOfInt(TrendingWindowDays))

Trending(coll, t) == {id \in DOMAIN coll : MatchTrending(coll[id], t)}

\* Faulty variant of the sort key below: the tie-breaking keys are dropped.
SortsBeforeByScoreOnly(a, b, t) ==
    FracLess(TrendingScore(b, t), TrendingScore(a, t))

\* {$sort: {trendingScore: -1, upvotes: -1, createdAt: -1}}: a sorts strictly
\* before b.
SortsBefore(a, b, t) ==
    \/ FracLess(TrendingScore(b, t), TrendingScore(a, t))
    \/ /\ ~FracLess(TrendingScore(a, t), TrendingScore(b, t))
       /\ \/ b.upvotes < a.upvotes
          \/ b.upvotes = a.upvotes /\ b.createdAt < a.createdAt

\* The orders the $sort stage may produce over the ids in S (no order is
\* fixed among records equal on all three keys).
SortedTrending(coll, S, t) ==
    {p \in Orders(S) :
        \A i, j \in DOMAIN p : i < j => ~SortsBefore(coll[p[j]], coll[p[i]], t)}

\* $project, and the entry of trendingMemes built from it: trendingScore is
\* held in hundredths and daysSinceCreation in tenths.
TrendingMemes(coll, page, t) ==
    [i \in DOMAIN page |->
        [id |-> page[i],
         tags |-> coll[page[i]].tags,
         upvotes |-> coll[page[i]].upvotes,
         downloads |-> coll[page[i]].downloads,
         createdAt |-> coll[page[i]].createdAt,
         trendingScore |-> RoundScaled(TrendingScore(coll[page[i]], t), 100),
         daysSinceCreation |-> RoundScaled(DaysSinceCreation(coll[page[i]], t), 10)]]

\* sevenDaysAgo.setDate(sevenDaysAgo.getDate() - 7)
SevenDaysAgo(t) == t - (7 * DayTicks)

\* {$match: {createdAt: {$gte: sevenDaysAgo}}}, {$unwind: '$tags'}: one
\* (record, position) pair per tag of a recent record.
Unwound(coll, sevenDaysAgo) ==
    {<<id, k>> \in (DOMAIN coll) \X (1..3) :
        /\ coll[id].createdAt >= sevenDaysAgo
        /\ k \in DOMAIN coll[id].tags}

\* The pairs of the $group with _id = tag.
TagGroup(coll, sevenDaysAgo, tag) ==
    {pr \in Unwound(coll, sevenDaysAgo) : coll[pr[1]].tags[pr[2]] = tag}

RECURSIVE SumWeighted(_, _)
SumWeighted(coll, pairs) ==
    IF pairs = {} THEN 0
    ELSE LET pr == CHOOSE x \in pairs : TRUE
         IN ((coll[pr[1]].upvotes * 2) + coll[pr[1]].downloads)
            + SumWeighted(coll, pairs \ {pr})

\* One $group output: count and trendingScore = $avg of (upvotes*2 + downloads).
TagStat(coll, sevenDaysAgo, tag) ==
    LET g == TagGroup(coll, sevenDaysAgo, tag)
    IN [tag |-> tag, count |-> Cardinality(g),
        trendingScore |-> Frac(SumWeighted(coll, g), Cardinality(g))]

GroupedTags(coll, sevenDaysAgo) ==
    {coll[pr[1]].tags[pr[2]] : pr \in Unwound(coll, sevenDaysAgo)}

\* {$sort: {trendingScore: -1, count: -1}}: a sorts strictly before b.
TagSortsBefore(a, b) ==
    \/ FracLess(b.trendingScore, a.trendingScore)
    \/ ~FracLess(a.trendingScore, b.trendingScore) /\ b.count < a.count

\* {$sort ...}, {$limit: 1}: the possible values of tagStats, as the
\* sequence of its _id fields.
TagStats(coll, sevenDaysAgo) ==
    LET tags == GroupedTags(coll, sevenDaysAgo)
    IN IF tags = {} THEN {<<>>}
       ELSE {<<tag>> : tag \in
               {x \in tags : \A y \in tags :
                   ~TagSortsBefore(TagStat(coll, sevenDaysAgo, y),
                                   TagStat(coll, sevenDaysAgo, x))}}

IdleTrend ==
    [pc |-> "idle", page |-> 0, limit |-> 0, skip |-> 0, sevenDaysAgo |-> 0,
     nowList |-> 0, nowCount |-> 0, atList |-> <<>>, atCount |-> <<>>,
     atTags |-> <<>>, storeCalls |-> 0, status |-> 0, trendingMemes |-> <<>>,
     totalItems |-> 0, total |-> 0, tagStats |-> <<>>]

\* Lines 940-945: skip and sevenDaysAgo, before `await connectToDB()`.
TrendStart(page, limit) ==
    /\ trend.pc = "idle"
    /\ trend' = [IdleTrend EXCEPT !.pc = "list", !.page = page, !.limit = limit,
                                  !.skip = (page - 1) * limit,
                                  !.sevenDaysAgo = SevenDaysAgo(now)]
    /\ UNCHANGED <<memes, now, reqs, search, popular, listing, validated,
                   store, assist, uploaded, conn, auth, sweep>>

\* Lines 948-1017: the page pipeline, built with the clock reading of now.
TrendList ==
    /\ trend.pc = "list"
    /\ IF store = "down" \/ trend.skip < 0 \/ trend.limit <= 0
       THEN trend' = [trend EXCEPT !.pc = "done", !.status = 500,
                                   !.nowList = now, !.atList = memes,
                                   !.storeCalls = @ + 1]
       ELSE \E order \in SortedTrending(memes, Trending(memes, now), now) :
               trend' = [trend EXCEPT
                            !.pc = "count",
                            !.nowList = now,
                            !.atList = memes,
                            !.storeCalls = @ + 1,
                            !.trendingMemes =
                                TrendingMemes(memes,
                                              SkipLimit(order, trend.skip,
                                                        trend.limit),
                                              now)]
    /\ UNCHANGED <<memes, now, reqs, search, popular, listing, validated,
                   store, assist, uploaded, conn, auth, sweep>>

\* Lines 1020-1041: the count pipeline, built with a new clock reading.
TrendCount ==
    /\ trend.pc = "count"
    /\ IF store = "down"
       THEN trend' = [trend EXCEPT !.pc = "done", !.status = 500,
                                   !.nowCount = now, !.atCount = memes,
                                   !.storeCalls = @ + 1]
       ELSE trend' = [trend EXCEPT
                    !.pc = "tags",
                    !.nowCount = now,
                    !.atCount = memes,
                    !.storeCalls = @ + 1,
                    !.totalItems = Cardinality(Trending(memes, now)),
                    !.total = Pages(Cardinality(Trending(memes, now)), trend.limit)]
    /\ UNCHANGED <<memes, now, reqs, search, popular, listing, validated,
                   store, assist, uploaded, conn, auth, sweep>>

\* Faulty variant of the step below: a failed tag pipeline is swallowed and
\* the response is a success without a top tag.
TrendTagStatsSwallowing ==
    /\ trend.pc = "tags"
    /\ IF store = "down"
       THEN trend' = [trend EXCEPT !.pc = "done", !.status = 200,
                                   !.atTags = memes, !.storeCalls = @ + 1]
       ELSE \E stats \in TagStats(memes, trend.sevenDaysAgo) :
               trend' = [trend EXCEPT
                       !.pc = "done",
                       !.atTags = memes,
                       !.storeCalls = @ + 1,
                       !.status = 200,
                       !.tagStats = stats]
    /\ UNCHANGED <<memes, now, reqs, search, popular, listing, validated,
                   store, assist, uploaded, conn, auth, sweep>>

\* Lines 1044-1097: the tag pipeline and the response.
TrendTagStats ==
    /\ trend.pc = "tags"
    /\ IF store = "down"
       THEN trend' = [trend EXCEPT !.pc = "done", !.status = 500,
                                   !.atTags = memes, !.storeCalls = @ + 1]
       ELSE \E stats \in TagStats(memes, trend.sevenDaysAgo) :
               trend' = [trend EXCEPT
                       !.pc = "done",
                       !.atTags = memes,
                       !.storeCalls = @ + 1,
                       !.status = 200,
                       !.tagStats = stats]
    /\ UNCHANGED <<memes, now, reqs, search, popular, listing, validated,
                   store, assist, uploaded, conn, auth, sweep>>

(***************************************************************************)
(* Query parameters: <<>> when the request does not give the parameter,    *)
(* <<n>> when it gives the decimal text of the integer n.                  *)
(***************************************************************************)
\* const { limit = 30 } = req.query: the destructuring default.
OrDefault(param, default) == IF param = <<>> THEN default ELSE param[1]

(***************************************************************************)
(* GET /popular: one aggregation over the whole collection.                *)
(***************************************************************************)
DefaultPopularLimit == 30

\* {$unwind: '$tags'}: one (record, position) pair per element of tags.
UnwindTags(coll) ==
    UNION {{<<id, k>> : k \in DOMAIN coll[id].tags} : id \in DOMAIN coll}

\* The pairs of the $group with _id = tag.
PopularGroup(coll, tag) ==
    {pr \in UnwindTags(coll) : coll[pr[1]].tags[pr[2]] = tag}

\* {$sum: '$upvotes'} over the pairs of a group.
RECURSIVE SumUpvotes(_, _)
SumUpvotes(coll, pairs) ==
    IF pairs = {} THEN 0
    ELSE LET pr == CHOOSE x \in pairs : TRUE
         IN coll[pr[1]].upvotes + SumUpvotes(coll, pairs \ {pr})

\* {$sum: '$downloads'} over the pairs of a group.
RECURSIVE SumDownloads(_, _)
SumDownloads(coll, pairs) ==
    IF pairs = {} THEN 0
    ELSE LET pr == CHOOSE x \in pairs : TRUE
         IN coll[pr[1]].downloads + SumDownloads(coll, pairs \ {pr})

\* One $group output.
PopularStat(coll, tag) ==
    LET g == PopularGroup(coll, tag)
    IN [tag |-> tag,
        count |-> Cardinality(g),
        totalUpvotes |-> SumUpvotes(coll, g),
        totalDownloads |-> SumDownloads(coll, g),
        avgUpvotes |-> Frac(SumUpvotes(coll, g), Cardinality(g))]

PopularGroups(coll) == {coll[pr[1]].tags[pr[2]] : pr \in UnwindTags(coll)}

\* Faulty variant of the sort below: count only.
PopularSortsBeforeByCount(a, b) == a.count > b.count

\* {$sort: {count: -1, totalUpvotes: -1}}: a sorts strictly before b.
PopularSortsBefore(a, b) ==
    \/ a.count > b.count
    \/ a.count = b.count /\ a.totalUpvotes > b.totalUpvotes

\* The orders the $sort stage can produce (groups equal on both keys come
\* in any order).
PopularSorted(coll) ==
    {p \in Orders(PopularGroups(coll)) :
        \A i, j \in DOMAIN p : i < j =>
            ~PopularSortsBefore(PopularStat(coll, p[j]), PopularStat(coll, p[i]))}

\* $project: avgUpvotes rounded to 2 places, held in hundredths.
PopularProject(stat) ==
    [tag |-> stat.tag, count |-> stat.count, totalUpvotes |-> stat.totalUpvotes,
     totalDownloads |-> stat.totalDownloads,
     avgUpvotes |-> RoundScaled(stat.avgUpvotes, 100)]

IdlePopular ==
    [pc |-> "idle", param |-> <<>>, limit |-> 0, status |-> 0,
     popularTags |-> <<>>, at |-> <<>>, storeCalls |-> 0]

\* Lines 1110-1155.  The server rejects a $limit stage whose argument is not
\* positive; the aggregate call then throws and the catch answers 500.
Popular(limitParam) ==
    /\ popular.pc = "idle"
    /\ LET limit == OrDefault(limitParam, DefaultPopularLimit)
       IN IF store = "down" \/ limit <= 0
          THEN popular' = [IdlePopular EXCEPT !.pc = "done",
                                              !.param = limitParam,
                                              !.limit = limit,
                                              !.status = 500, !.at = memes,
                                              !.storeCalls = 1]
          ELSE \E order \in PopularSorted(memes) :
                  popular' =
                      [IdlePopular EXCEPT
                          !.pc = "done", !.param = limitParam,
                          !.limit = limit, !.status = 200,
                          !.at = memes, !.storeCalls = 1,
                          !.popularTags =
                              [i \in 1..Min(limit, Len(order)) |->
                                  PopularProject(PopularStat(memes, order[i]))]]
    /\ UNCHANGED <<memes, now, reqs, search, trend, listing, validated,
                   store, assist, uploaded, conn, auth, sweep>>

(***************************************************************************)
(* GET /memes without a tags filter and with the default sort (recent).    *)
(***************************************************************************)
DefaultPage == 1

DefaultLimit == 20

IdleListing ==
    [pc |-> "idle", page |-> 0, limit |-> 0, skip |-> 0, found |-> <<>>,
     atFind |-> <<>>, storeCalls |-> 0, status |-> 0, memes |-> <<>>,
     totalItems |-> 0, total |-> 0]

\* Lines 1355-1362: the parameters and skip, before `await connectToDB()`.
ListStart(page, limit) ==
    /\ listing.pc = "idle"
    /\ listing' = [IdleListing EXCEPT !.pc = "find", !.page = page,
                                      !.limit = limit,
                                      !.skip = (page - 1) * limit]
    /\ UNCHANGED <<memes, now, reqs, search, trend, popular, validated,
                   store, assist, uploaded, conn, auth, sweep>>

\* Lines 1380-1386: find(query).sort({createdAt: -1}).skip().limit().
ListFind ==
    /\ listing.pc = "find"
    /\ IF store = "down" \/ listing.skip < 0
       THEN listing' = [listing EXCEPT !.pc = "done", !.status = 500,
                                       !.atFind = memes, !.storeCalls = @ + 1]
       ELSE \E order \in SortedByCreatedAt(memes, DOMAIN memes) :
               listing' = [listing EXCEPT
                              !.pc = "count",
                              !.found = CursorSkipLimit(order, listing.skip,
                                                        listing.limit),
                              !.atFind = memes,
                              !.storeCalls = @ + 1]
    /\ UNCHANGED <<memes, now, reqs, search, trend, popular, validated,
                   store, assist, uploaded, conn, auth, sweep>>

\* Faulty variant of the step below: the listing also counts a download for
\* every record it returns.
ListCountTouching ==
    /\ listing.pc = "count"
    /\ listing' = [listing EXCEPT
                      !.pc = "done",
                      !.storeCalls = @ + 1,
                      !.status = 200,
                      !.memes = listing.found,
                      !.totalItems = Len(memes),
                      !.total = Pages(Len(memes), listing.limit)]
    /\ memes' = [id \in DOMAIN memes |->
                    IF id \in Range(listing.found)
                    THEN [memes[id] EXCEPT !.downloads = @ + 1]
                    ELSE memes[id]]
    /\ UNCHANGED <<now, reqs, search, trend, popular, validated,
                   store, assist, uploaded, conn, auth, sweep>>

\* Lines 1388-1408: countDocuments(query) and the response.
ListCount ==
    /\ listing.pc = "count"
    /\ IF store = "down"
       THEN listing' = [listing EXCEPT !.pc = "done", !.status = 500,
                                       !.storeCalls = @ + 1]
       ELSE listing' = [listing EXCEPT
                      !.pc = "done",
                      !.storeCalls = @ + 1,
                      !.status = 200,
                      !.memes = listing.found,
                      !.totalItems = Len(memes),
                      !.total = Pages(Len(memes), listing.limit)]
    /\ UNCHANGED <<memes, now, reqs, search, trend, popular, validated,
                   store, assist, uploaded, conn, auth, sweep>>

(***************************************************************************)
(* validatePagination (src/utils/helpers.js).  An argument is the text of  *)
(* a query parameter; parseInt applies ToString to its argument first, so  *)
(* a missing parameter (undefined) is read as the text "undefined".        *)
(***************************************************************************)
Undefined == <<"u", "n", "d", "e", "f", "i", "n", "e", "d">>

Digits == {"0", "1", "2", "3", "4", "5", "6", "7", "8", "9"}

DigitValue(c) ==
    CASE c = "0" -> 0 [] c = "1" -> 1 [] c = "2" -> 2 [] c = "3" -> 3
      [] c = "4" -> 4 [] c = "5" -> 5 [] c = "6" -> 6 [] c = "7" -> 7
      [] c = "8" -> 8 [] c = "9" -> 9

\* The value of the longest prefix of decimal digits of s, continuing acc;
\* seen tells whether a digit was read.  <<>> stands for NaN.
RECURSIVE ParseDigits(_, _, _)
ParseDigits(s, acc, seen) ==
    IF s # <<>> /\ Head(s) \in Digits
    THEN ParseDigits(Tail(s), (10 * acc) + DigitValue(Head(s)), TRUE)
    ELSE IF seen THEN <<acc>> ELSE <<>>

\* parseInt(text): leading white space is skipped, then an optional sign,
\* then decimal digits up to the first other character; NaN (<<>>) when no
\* digit is read.
ParseInt(text) ==
    LET s == TrimLeft(text)
    IN IF s # <<>> /\ Head(s) = "-"
       THEN LET v == ParseDigits(Tail(s), 0, FALSE)
            IN IF v = <<>> THEN <<>> ELSE <<0 - v[1]>>
       ELSE IF s # <<>> /\ Head(s) = "+"
       THEN ParseDigits(Tail(s), 0, FALSE)
       ELSE ParseDigits(s, 0, FALSE)

\* value || default: NaN and 0 are falsy.
OrElse(value, default) ==
    IF value = <<>> \/ value[1] = 0 THEN default ELSE value[1]

ValidatePagination(page, limit) ==
    LET validatedPage == Max(1, OrElse(ParseInt(page), 1))
        validatedLimit == Min(100, Max(1, OrElse(ParseInt(limit), 20)))
    IN [page |-> validatedPage,
        limit |-> validatedLimit,
        skip |-> (validatedPage - 1) * validatedLimit]

IdleValidated ==
    [pc |-> "idle", page |-> <<>>, limit |-> <<>>,
     result |-> [page |-> 0, limit |-> 0, skip |-> 0]]

\* One call of validatePagination.
Validate(page, limit) ==
    /\ validated.pc = "idle"
    /\ validated' = [pc |-> "done", page |-> page, limit |-> limit,
                     result |-> ValidatePagination(page, limit)]
    /\ UNCHANGED <<memes, now, reqs, search, trend, popular, listing,
                   store, assist, uploaded, conn, auth, sweep>>

(***************************************************************************)
(* The document store as the handlers see it: while it is "down" every     *)
(* call on it (connectToDB, find, countDocuments, aggregate, insertOne)    *)
(* rejects, and the handler's catch block answers.                         *)
(***************************************************************************)
StoreFails ==
    /\ store = "up"
    /\ store' = "down"
    /\ UNCHANGED <<memes, now, reqs, search, trend, popular, listing, validated,
                   assist, uploaded, conn, auth, sweep>>

StoreRecovers ==
    /\ store = "down"
    /\ store' = "up"
    /\ UNCHANGED <<memes, now, reqs, search, trend, popular, listing, validated,
                   assist, uploaded, conn, auth, sweep>>

(***************************************************************************)
(* GET /search-assist: tag suggestions.  q is held as in GET /search:      *)
(* <<>> stands for a missing or empty parameter (`!q` holds for both).     *)
(***************************************************************************)
AssistLimit == 10

\* {$unwind: '$tags'}, {$match: {tags: searchRegex}}: the (record, position)
\* pairs whose tag the expression matches.
AssistUnwound(coll, searchRegex) ==
    {pr \in UnwindTags(coll) : RegexTest(searchRegex, coll[pr[1]].tags[pr[2]])}

\* The _ids of {$group: {_id: '$tags', ..}}.
AssistGroups(coll, searchRegex) ==
    {coll[pr[1]].tags[pr[2]] : pr \in AssistUnwound(coll, searchRegex)}

\* count: {$sum: 1} of the group of tag.
AssistCount(coll, searchRegex, tag) ==
    Cardinality({pr \in AssistUnwound(coll, searchRegex) :
                    coll[pr[1]].tags[pr[2]] = tag})

\* {$sort: {count: -1}}: groups of equal count come in any order.
AssistSorted(coll, searchRegex) ==
    {p \in Orders(AssistGroups(coll, searchRegex)) :
        \A i, j \in DOMAIN p : i < j =>
            AssistCount(coll, searchRegex, p[i])
                >= AssistCount(coll, searchRegex, p[j])}

IdleAssist ==
    [pc |-> "idle", q |-> <<>>, status |-> 0, tags |-> <<>>, at |-> <<>>,
     storeCalls |-> 0]

\* Lines 896-935.  `new RegExp(q.toLowerCase(), 'i')` throws on an invalid
\* source before the store is reached; the catch answers 500.
SearchAssist(q) ==
    /\ assist.pc = "idle"
    /\ IF q = <<>>
       THEN assist' = [IdleAssist EXCEPT !.pc = "done", !.status = 200]
       ELSE IF ~RegexValid(ToLowerCase(q))
       THEN assist' = [IdleAssist EXCEPT !.pc = "done", !.q = q, !.status = 500]
       ELSE IF store = "down"
       THEN assist' = [IdleAssist EXCEPT !.pc = "done", !.q = q, !.status = 500,
                                         !.at = memes, !.storeCalls = 1]
       ELSE \E order \in AssistSorted(memes, ToLowerCase(q)) :
               assist' = [IdleAssist EXCEPT
                             !.pc = "done", !.q = q, !.status = 200,
                             !.at = memes, !.storeCalls = 1,
                             !.tags = SkipLimit(order, 0, AssistLimit)]
    /\ UNCHANGED <<memes, now, reqs, search, trend, popular, listing, validated,
                   store, uploaded, conn, auth, sweep>>

(***************************************************************************)
(* POST /upload with its collaborators: the image store (Cloudinary), the  *)
(* tag and description generators (src/config/gemini.js) and the document  *)
(* store.  A generator reply is [ok, ..]: ok is FALSE when the model call  *)
(* rejects or, for tags, when its text is not JSON.                        *)
(***************************************************************************)
\* gemini.js line 43.
FallbackTags ==
    <<<<"m", "e", "m", "e">>,
      <<"f", "u", "n", "n", "y">>,
      <<"v", "i", "r", "a", "l">>,
      <<"i", "n", "t", "e", "r", "n", "e", "t">>,
      <<"h", "u", "m", "o", "r">>>>

\* memes.js line 728.
FallbackDescription ==
    <<"A", " ", "m", "e", "m", "e", " ", "i", "m", "a", "g", "e", " ", "u",
      "p", "l", "o", "a", "d", "e", "d", " ", "t", "o", " ", "t", "h", "e",
      " ", "m", "a", "r", "k", "e", "t", "p", "l", "a", "c", "e">>

\* gemini.js line 406.
ShortDescription ==
    <<"A", " ", "h", "u", "m", "o", "r", "o", "u", "s", " ", "m", "e", "m",
      "e", " ", "i", "m", "a", "g", "e">>

MaxDescriptionLength == 100

MinDescriptionLength == 10

TruncatedLength == 97

\* Faulty variant of the generator below: no fallback, the failed reply is
\* used as it is.
GenerateMemeTagsNoFallback(reply) == reply.tags

\* generateMemeTags: the parsed reply, or the fallback tags from its catch.
GenerateMemeTags(reply) == IF reply.ok THEN reply.tags ELSE FallbackTags

IsQuote(c) == c = "\"" \/ c = "'"

\* .replace(/^["']|["']$/g, ''): a quote at the start and a quote at the end
\* are removed.
StripQuotes(s) ==
    LET t == IF s # <<>> /\ IsQuote(Head(s)) THEN Tail(s) ELSE s
    IN IF t # <<>> /\ IsQuote(t[Len(t)]) THEN SubSeq(t, 1, Len(t) - 1) ELSE t

\* .replace(/\n/g, ' ')
ReplaceNewlines(s) == [i \in DOMAIN s |-> IF s[i] = "\n" THEN " " ELSE s[i]]

\* generateMemeDescription: threw is TRUE when the catch rethrows.
GenerateMemeDescription(reply) ==
    IF ~reply.ok THEN [threw |-> TRUE, text |-> <<>>]
    ELSE LET cleaned == Trim(ReplaceNewlines(StripQuotes(Trim(reply.text))))
             cut == IF Len(cleaned) > MaxDescriptionLength
                    THEN SubSeq(cleaned, 1, TruncatedLength) \o <<".", ".", ".">>
                    ELSE cleaned
         IN [threw |-> FALSE,
             text |-> IF Len(cut) < MinDescriptionLength
                      THEN ShortDescription ELSE cut]

IdleUpload ==
    [pc |-> "idle", hasFile |-> FALSE, body |-> <<>>, storageOk |-> FALSE,
     tagsFailed |-> FALSE, descriptionFailed |-> FALSE, tags |-> <<>>,
     description |-> <<>>, id |-> 0, storeFailed |-> FALSE, status |-> 0]

\* Lines 688-730: the file check, the image upload, the tags and - when the
\* trimmed description of the body is empty - the description.
UploadStart(hasFile, body, storageOk, tagsReply, descriptionReply) ==
    /\ uploaded.pc = "idle"
    /\ Len(memes) < MaxMemes
    /\ LET request == [IdleUpload EXCEPT !.hasFile = hasFile, !.body = body,
                                         !.storageOk = storageOk]
           generated == GenerateMemeDescription(descriptionReply)
       IN IF ~hasFile
          THEN uploaded' = [request EXCEPT !.pc = "done", !.status = 400]
          ELSE IF ~storageOk
          THEN uploaded' = [request EXCEPT !.pc = "done", !.status = 500]
          ELSE uploaded' =
                  [request EXCEPT
                      !.pc = "insert",
                      !.tagsFailed = ~tagsReply.ok,
                      !.tags = GenerateMemeTags(tagsReply),
                      !.descriptionFailed = Trim(body) = <<>> /\ generated.threw,
                      !.description =
                          IF Trim(body) # <<>> THEN Trim(body)
                          ELSE IF generated.threw THEN FallbackDescription
                          ELSE generated.text]
    /\ UNCHANGED <<memes, now, reqs, search, trend, popular, listing, validated,
                   store, assist, conn, auth, sweep>>

\* Lines 733-753: connectToDB and insertOne(memeData).
UploadInsert ==
    /\ uploaded.pc = "insert"
    /\ IF store = "down"
       THEN /\ uploaded' = [uploaded EXCEPT !.pc = "done", !.status = 500,
                                            !.storeFailed = TRUE]
            /\ UNCHANGED memes
       ELSE /\ memes' = InsertOne(memes, MemeDoc(uploaded.tags,
                                                 ToLowerCase(uploaded.description),
                                                 now))
            /\ uploaded' = [uploaded EXCEPT !.pc = "read", !.id = Len(memes) + 1]
    /\ UNCHANGED <<now, reqs, search, trend, popular, listing, validated,
                   store, assist, conn, auth, sweep>>

\* Lines 754-771: findOne({_id: result.insertedId}) and the 201 response.
UploadReadBack ==
    /\ uploaded.pc = "read"
    /\ IF store = "down"
       THEN uploaded' = [uploaded EXCEPT !.pc = "done", !.status = 500,
                                         !.storeFailed = TRUE]
       ELSE uploaded' = [uploaded EXCEPT !.pc = "done", !.status = 201]
    /\ UNCHANGED <<memes, now, reqs, search, trend, popular, listing, validated,
                   store, assist, conn, auth, sweep>>

(***************************************************************************)
(* connectToDB (src/db.js).  client and db are the module's two variables  *)
(* (TRUE once assigned); connect is the state of the one pending or        *)
(* settled client.connect() promise; created and connects count the        *)
(* MongoClient objects constructed and the connect() calls made.  A caller *)
(* is an activation of the async function: "awaiting" while suspended at   *)
(* `await client.connect()`, "returned" with a db handle, or "rejected".   *)
(* connected records whether connect() had resolved when the handle was    *)
(* returned, attempted whether the activation called connect().            *)
(***************************************************************************)
MaxCallers == 3

MaxCalls == 2

Callers == 1..MaxCallers

IdleCaller ==
    [pc |-> "idle", connected |-> FALSE, attempted |-> FALSE, calls |-> 0]

IdleConn ==
    [client |-> FALSE, db |-> FALSE, connect |-> "none", created |-> 0,
     connects |-> 0, callers |-> [c \in Callers |-> IdleCaller]]

\* Lines 13-17 and 21-22, up to the first suspension: `if (db) return db`;
\* `if (!client)` constructs the client and calls connect(), suspending at
\* the await; otherwise `db = client.db(..)` and the handle is returned.
ConnectToDB(c) ==
    /\ conn.callers[c].pc = "idle"
    /\ conn.callers[c].calls < MaxCalls
    /\ IF conn.db
       THEN conn' = [conn EXCEPT
                        !.callers[c] = [pc |-> "returned",
                                        connected |-> conn.connect = "ok",
                                        attempted |-> FALSE,
                                        calls |-> @.calls + 1]]
       ELSE IF ~conn.client
       THEN conn' = [conn EXCEPT
                        !.client = TRUE,
                        !.created = @ + 1,
                        !.connect = "pending",
                        !.connects = @ + 1,
                        !.callers[c] = [pc |-> "awaiting",
                                        connected |-> FALSE,
                                        attempted |-> TRUE,
                                        calls |-> @.calls + 1]]
       ELSE conn' = [conn EXCEPT
                        !.db = TRUE,
                        !.callers[c] = [pc |-> "returned",
                                        connected |-> conn.connect = "ok",
                                        attempted |-> FALSE,
                                        calls |-> @.calls + 1]]
    /\ UNCHANGED <<memes, now, reqs, search, trend, popular, listing, validated,
                   store, assist, uploaded, auth, sweep>>

\* client.connect() resolves: the suspended activation runs lines 18-22.
ConnectResolves(c) ==
    /\ conn.callers[c].pc = "awaiting"
    /\ conn' = [conn EXCEPT !.connect = "ok",
                            !.db = TRUE,
                            !.callers[c].pc = "returned",
                            !.callers[c].connected = TRUE]
    /\ UNCHANGED <<memes, now, reqs, search, trend, popular, listing, validated,
                   store, assist, uploaded, auth, sweep>>

\* client.connect() rejects: the await throws out of the async function.
ConnectRejects(c) ==
    /\ conn.callers[c].pc = "awaiting"
    /\ conn' = [conn EXCEPT !.connect = "failed",
                            !.callers[c].pc = "rejected"]
    /\ UNCHANGED <<memes, now, reqs, search, trend, popular, listing, validated,
                   store, assist, uploaded, auth, sweep>>

\* The caller has its answer and may call connectToDB again.
CallerDone(c) ==
    /\ conn.callers[c].pc \in {"returned", "rejected"}
    /\ conn.callers[c].calls < MaxCalls
    /\ conn' = [conn EXCEPT !.callers[c].pc = "idle"]
    /\ UNCHANGED <<memes, now, reqs, search, trend, popular, listing, validated,
                   store, assist, uploaded, auth, sweep>>

(***************************************************************************)
(* authenticate and optionalAuth (src/unnamed/part_002).  A request has a  *)
(* session user or not, and an Authorization header or not; a header is    *)
(* the text "Bearer " (or nothing) followed by a token, and a token is     *)
(* empty, signed with the server's secret, forged or expired.  nextCalls   *)
(* counts calls of next(), unauthorized counts 401 responses sent.         *)
(***************************************************************************)
MaxAuthReqs == 2

AuthReqs == 1..MaxAuthReqs

Tokens == {"empty", "signed", "forged", "expired"}

NoHeader == [present |-> FALSE, bearer |-> FALSE, token |-> "empty"]

Headers ==
    {NoHeader} \cup
    {[present |-> TRUE, bearer |-> b, token |-> t] : b \in BOOLEAN, t \in Tokens}

\* req.header('Authorization')?.replace('Bearer ', ''): what is left of the
\* header once the first "Bearer " is removed; "empty" stands for undefined
\* and for the empty string, which `!token` treats alike.
TokenOf(header) == IF header.present THEN header.token ELSE "empty"

\* Faulty variant of the check below: no token is refused.
VerifiesAnything(token) == TRUE

\* jwt.verify(token, process.env.JWT_SECRET) returns (and does not throw).
Verifies(token) == token = "signed"

IdleAuthReq ==
    [pc |-> "idle", kind |-> "none", sessionUser |-> FALSE, header |-> NoHeader,
     lookup |-> "none", reqUser |-> FALSE, nextCalls |-> 0, unauthorized |-> 0]

IdleAuth == [r \in AuthReqs |-> IdleAuthReq]

\* authenticate, lines 5-22: up to `await User.findById(decoded.id)`.
Authenticate(r, sessionUser, header) ==
    /\ auth[r].pc = "idle"
    /\ LET request == [IdleAuthReq EXCEPT !.kind = "authenticate",
                                          !.sessionUser = sessionUser,
                                          !.header = header,
                                          !.reqUser = sessionUser]
       IN IF sessionUser
          THEN auth' = [auth EXCEPT ![r] = [request EXCEPT !.pc = "done",
                                                           !.nextCalls = 1]]
          ELSE IF TokenOf(header) = "empty" \/ ~Verifies(TokenOf(header))
          THEN auth' = [auth EXCEPT ![r] = [request EXCEPT !.pc = "done",
                                                           !.unauthorized = 1]]
          ELSE auth' = [auth EXCEPT ![r] = [request EXCEPT !.pc = "lookup"]]
    /\ UNCHANGED <<memes, now, reqs, search, trend, popular, listing, validated,
                   store, assist, uploaded, conn, sweep>>

\* authenticate, lines 22-38: findById resolves to a user ("found") or to
\* null ("missing"), or rejects ("error", answered by the catch).
AuthenticateLookup(r, outcome) ==
    /\ auth[r].pc = "lookup"
    /\ auth[r].kind = "authenticate"
    /\ IF outcome = "found"
       THEN auth' = [auth EXCEPT ![r].pc = "done", ![r].lookup = outcome,
                                 ![r].reqUser = TRUE,
                                 ![r].nextCalls = @ + 1]
       ELSE auth' = [auth EXCEPT ![r].pc = "done", ![r].lookup = outcome,
                                 ![r].unauthorized = @ + 1]
    /\ UNCHANGED <<memes, now, reqs, search, trend, popular, listing, validated,
                   store, assist, uploaded, conn, sweep>>

\* optionalAuth, lines 42-53 and 57-61: up to `await User.findById(..)`, or
\* to the end when there is a session user, no token, or a token that
\* jwt.verify refuses (the catch calls next()).
OptionalAuth(r, sessionUser, header) ==
    /\ auth[r].pc = "idle"
    /\ LET request == [IdleAuthReq EXCEPT !.kind = "optionalAuth",
                                          !.sessionUser = sessionUser,
                                          !.header = header,
                                          !.reqUser = sessionUser]
       IN IF sessionUser \/ TokenOf(header) = "empty"
             \/ ~Verifies(TokenOf(header))
          THEN auth' = [auth EXCEPT ![r] = [request EXCEPT !.pc = "done",
                                                           !.nextCalls = 1]]
          ELSE auth' = [auth EXCEPT ![r] = [request EXCEPT !.pc = "lookup"]]
    /\ UNCHANGED <<memes, now, reqs, search, trend, popular, listing, validated,
                   store, assist, uploaded, conn, sweep>>

\* optionalAuth, lines 53-61: `req.user = user` (a user or null) and next(),
\* or the catch and next() when findById rejects.
OptionalAuthLookup(r, outcome) ==
    /\ auth[r].pc = "lookup"
    /\ auth[r].kind = "optionalAuth"
    /\ auth' = [auth EXCEPT ![r].pc = "done", ![r].lookup = outcome,
                            ![r].reqUser = (outcome = "found"),
                            ![r].nextCalls = @ + 1]
    /\ UNCHANGED <<memes, now, reqs, search, trend, popular, listing, validated,
                   store, assist, uploaded, conn, sweep>>

\* The clock advances to a later reading.
Tick(t) ==
    /\ t > now
    /\ now' = t
    /\ UNCHANGED <<memes, reqs, search, trend, popular, listing, validated,
                   store, assist, uploaded, conn, auth, sweep>>

(***************************************************************************)
(* Spec: uploads and concurrent counter requests.                          *)
(***************************************************************************)
CounterTags == {<<>>, <<<<"a">>>>}

Init ==
    /\ memes = <<>>
    /\ now = 0
    /\ reqs = [r \in ReqIds |-> IdleReq]
    /\ search = IdleSearch
    /\ trend = IdleTrend
    /\ popular = IdlePopular
    /\ listing = IdleListing
    /\ validated = IdleValidated
    /\ store = "up"
    /\ assist = IdleAssist
    /\ uploaded = IdleUpload
    /\ conn = IdleConn
    /\ auth = IdleAuth
    /\ sweep = <<>>

Next ==
    \/ \E tags \in CounterTags : Upload(tags, <<"a">>)
    \/ \E r \in ReqIds, memeId \in MemeIdInputs : UpdateUpvote(r, memeId)
    \/ \E r \in ReqIds, memeId \in MemeIdInputs : TrackDownloads(r, memeId)
    \/ \E r \in ReqIds, memeId \in MemeIdInputs : MongooseUpvoteFind(r, memeId)
    \/ \E r \in ReqIds : MongooseUpvoteSave(r)
    \/ \E r \in ReqIds, memeId \in MemeIdInputs : MongooseTrackDownloads(r, memeId)

Spec == Init /\ [][Next]_vars

(***************************************************************************)
(* Counter properties.                                                     *)
(***************************************************************************)
\* The requests of one kind that answered success for record id.
Succeeded(kind, id) ==
    {r \in ReqIds : /\ reqs[r].pc = "done"
                    /\ reqs[r].kind = kind
                    /\ reqs[r].status = 200
                    /\ reqs[r].memeId = id}

Quiescent == \A r \in ReqIds : reqs[r].pc # "save"

\* C1: counter increments are never lost.  Once no request is in flight,
\* every record's upvotes equal the number of update-upvote requests that
\* answered success for it and its downloads the number of successful
\* track-downloads requests (both counters start at 0 on upload).
C1_NoLostIncrement ==
    Quiescent =>
        \A id \in DOMAIN memes :
            /\ memes[id].upvotes = Cardinality(Succeeded("upvote", id))
            /\ memes[id].downloads = Cardinality(Succeeded("download", id))


(***************************************************************************)
(* SpecSearch: a catalogue built by uploads, and search requests.          *)
(***************************************************************************)
MaxQueryLen == 5

QueryChars == {"a", ".", " "}

Queries == SeqsUpTo(QueryChars, MaxQueryLen)

\* (page, limit) of a request.
Paging == {<<1, 1>>, <<2, 1>>, <<1, 2>>}

\* What an upload stores: the generated tags and the description.
SearchUploads ==
    { [tags |-> << <<"a", "a">>, <<"A", "a", "b">> >>, description |-> <<"a", "a">>],
      [tags |-> << <<"a", "b">> >>, description |-> <<>>],
      [tags |-> <<>>, description |-> <<"B", "a", "a">>] }

SearchInstants == {1}

InitSearch == Init

\* The catalogue is built, then one search request is served.
NextSearch ==
    \/ /\ search.pc = "idle"
       /\ \E u \in SearchUploads : Upload(u.tags, u.description)
    \/ /\ search.pc = "idle"
       /\ \E t \in SearchInstants : Tick(t)
    \/ /\ search.pc = "idle"
       /\ \E q \in Queries, p \in Paging : SearchStart(q, p[1], p[2])
    \/ SearchFind
    \/ SearchCount

SpecSearch == InitSearch /\ [][NextSearch]_vars

(***************************************************************************)
(* Search properties.                                                      *)
(***************************************************************************)
SearchAnswered == search.pc = "done" /\ search.status = 200

ResponseIds == [i \in DOMAIN search.memes |-> search.memes[i].id]

\* The orders of all matching records by descending relevance score, ties
\* by descending createdAt.
FullRankings(coll, searchWords) ==
    {p \in Orders(Matching(coll, CombinedRegex(searchWords))) :
        \A i, j \in DOMAIN p : i < j =>
            LET si == RelevanceScore(coll[p[i]], searchWords)
                sj == RelevanceScore(coll[p[j]], searchWords)
            IN \/ si > sj
               \/ si = sj /\ coll[p[i]].createdAt >= coll[p[j]].createdAt}

\* C2: search paginates after ranking the whole matching set: the memes of
\* a response are positions [(page-1)*limit, page*limit) of all matching
\* records ordered by descending relevance score, ties by descending
\* createdAt.
C2_PaginatesAfterRanking ==
    SearchAnswered =>
        \E ranking \in FullRankings(search.atFind, search.searchWords) :
            ResponseIds = SkipLimit(ranking, (search.page - 1) * search.limit,
                                    search.limit)

\* The distinct query tokens occurring in a string (case-insensitively).
TokensIn(str, searchWords) ==
    {w \in Range(searchWords) : Includes(ToLowerCase(str), ToLowerCase(w))}

\* The distinct query tokens occurring in at least one tag.
TokensInTags(tags, searchWords) ==
    UNION {TokensIn(tags[t], searchWords) : t \in DOMAIN tags}

\* C3: relevanceScore = 2 * (distinct query tokens that are substrings of
\* the description) + (distinct query tokens that are substrings of at
\* least one tag), each token counted at most once per field.
C3_ScoreCountsDistinctTokens ==
    SearchAnswered =>
        \A i \in DOMAIN search.memes :
            search.memes[i].relevanceScore =
                2 * Cardinality(TokensIn(search.memes[i].description,
                                         search.searchWords))
                + Cardinality(TokensInTags(search.memes[i].tags,
                                           search.searchWords))

\* Some query token is a case-insensitive literal substring of a tag or of
\* the description.
LiteralMatch(doc, searchWords) ==
    \/ TokensInTags(doc.tags, searchWords) # {}
    \/ TokensIn(doc.description, searchWords) # {}

\* C4: candidate selection is exact: the records matched (returned, and
\* counted in totalItems) are those with a query token as a literal
\* case-insensitive substring of a tag or of the description, also for
\* tokens holding regular-expression operators.
C4_SelectionIsLiteral ==
    SearchAnswered =>
        /\ \A i \in DOMAIN search.memes :
               LiteralMatch(search.memes[i], search.searchWords)
        /\ search.totalItems =
               Cardinality({id \in DOMAIN search.atCount :
                               LiteralMatch(search.atCount[id], search.searchWords)})

\* A query that is missing, empty, whitespace-only or made of tokens of
\* length <= 1: no two adjacent characters are both non-space.
DegenerateQuery(q) ==
    \A i \in 1..(Len(q) - 1) : IsSpace(q[i]) \/ IsSpace(q[i + 1])

\* C5: a search whose query is missing, empty, whitespace-only or whose
\* tokens all have length <= 1 is answered 400, and no store access is made
\* for a rejected request.
C5_DegenerateQueryRejected ==
    /\ (search.pc # "idle" /\ DegenerateQuery(search.q)) =>
           search.pc = "done" /\ search.status = 400
    /\ search.status = 400 => search.storeCalls = 0

\* A non-empty query of single-character tokens was rejected while the
\* catalogue held records.
C5_Witness ==
    /\ search.pc = "done"
    /\ search.status = 400
    /\ search.storeCalls = 0
    /\ \E i \in DOMAIN search.q : ~IsSpace(search.q[i])
    /\ DegenerateQuery(search.q)
    /\ memes # <<>>


(***************************************************************************)
(* SpecTrending: trending requests over catalogues the program can hold:   *)
(* records uploaded at one of a few instants (in upload order), voted up   *)
(* and downloaded a few times, read at day 30 or one tick later.           *)
(***************************************************************************)
TrendCreatedAts == {0, 23 * DayTicks, TrendingWindowDays * DayTicks}

TrendTags == {<<>>, << <<"a">> >>}

\* <<upvotes, downloads>> of a record.
TrendVotes == {<<0, 0>>, <<0, 1>>, <<1, 0>>, <<0, 2>>, <<2, 0>>}

TrendDocs ==
    {[MemeDoc(tags, <<"a">>, t) EXCEPT !.upvotes = v[1], !.downloads = v[2]] :
        tags \in TrendTags, t \in TrendCreatedAts, v \in TrendVotes}

TrendCatalogues ==
    {c \in SeqsUpTo(TrendDocs, MaxMemes) :
        \A i, j \in DOMAIN c : i < j => c[i].createdAt <= c[j].createdAt}

TrendInstants == {(TrendingWindowDays * DayTicks) + 1}

InitTrending ==
    /\ memes \in TrendCatalogues
    /\ now = TrendingWindowDays * DayTicks
    /\ reqs = [r \in ReqIds |-> IdleReq]
    /\ search = IdleSearch
    /\ trend = IdleTrend
    /\ popular = IdlePopular
    /\ listing = IdleListing
    /\ validated = IdleValidated
    /\ store = "up"
    /\ assist = IdleAssist
    /\ uploaded = IdleUpload
    /\ conn = IdleConn
    /\ auth = IdleAuth
    /\ sweep = <<>>

NextTrending ==
    \/ \E t \in TrendInstants : Tick(t)
    \/ \E p \in Paging : TrendStart(p[1], p[2])
    \/ TrendList
    \/ TrendCount
    \/ TrendTagStats

SpecTrending == InitTrending /\ [][NextTrending]_vars


(***************************************************************************)
(* Trending properties.  Ages are in ticks and scores are compared by      *)
(* cross-multiplication, independently of the fraction arithmetic above.   *)
(***************************************************************************)
TrendAnswered == trend.pc = "done" /\ trend.status = 200

TrendIds == [i \in DOMAIN trend.trendingMemes |-> trend.trendingMemes[i].id]

Abs(x) == IF x < 0 THEN -x ELSE x

Age(doc, t) == t - doc.createdAt

Weight(doc) == (2 * doc.upvotes) + doc.downloads

\* The records at most 30 days old at clock reading t.
Eligible(coll, t) ==
    {id \in DOMAIN coll : Age(coll[id], t) <= TrendingWindowDays * DayTicks}

\* C6: no record older than 30 days appears in trendingMemes or is counted
\* in totalItems, whatever its counters, and every record at most 30 days
\* old is eligible: it is counted, and the page has as many entries as the
\* eligible records leave after skip, up to limit.
C6_ThirtyDayWindow ==
    TrendAnswered =>
        /\ \A i \in DOMAIN trend.trendingMemes :
               Age(trend.trendingMemes[i], trend.nowList)
                   <= TrendingWindowDays * DayTicks
        /\ trend.totalItems = Cardinality(Eligible(trend.atCount, trend.nowCount))
        /\ Len(trend.trendingMemes) =
               Min(trend.limit,
                   Max(0, Cardinality(Eligible(trend.atList, trend.nowList))
                          - ((trend.page - 1) * trend.limit)))

\* A record older than 30 days with the highest counters was left out of a
\* non-empty page and of the count.
C6_Witness ==
    /\ TrendAnswered
    /\ trend.trendingMemes # <<>>
    /\ \E id \in DOMAIN trend.atList :
          /\ Age(trend.atList[id], trend.nowList) > TrendingWindowDays * DayTicks
          /\ trend.atList[id].upvotes = 2
          /\ \A i \in DOMAIN trend.trendingMemes :
                trend.trendingMemes[i].id # id
                /\ trend.trendingMemes[i].upvotes < 2
    /\ trend.totalItems < Len(trend.atCount)

\* a has the higher trend score at clock reading t.
HigherScore(a, b, t) ==
    Weight(a) * (Age(b, t) + DayTicks) > Weight(b) * (Age(a, t) + DayTicks)

\* a ranks strictly before b: descending score, then descending upvotes,
\* then descending createdAt.
RanksBefore(a, b, t) ==
    \/ HigherScore(a, b, t)
    \/ /\ ~HigherScore(b, a, t)
       /\ \/ a.upvotes > b.upvotes
          \/ a.upvotes = b.upvotes /\ a.createdAt > b.createdAt

TrendRankings(coll, t) ==
    {p \in Orders(Eligible(coll, t)) :
        \A i, j \in DOMAIN p : i < j => ~RanksBefore(coll[p[j]], coll[p[i]], t)}

\* C7: trendingMemes is the page slice [(page-1)*limit, page*limit) of all
\* eligible records ordered by descending trend score, ties by descending
\* upvotes, then descending createdAt; totalItems is the number of eligible
\* records, whatever page and limit.
C7_PageOfFullRanking ==
    TrendAnswered =>
        /\ \E ranking \in TrendRankings(trend.atList, trend.nowList) :
              TrendIds = SkipLimit(ranking, (trend.page - 1) * trend.limit,
                                   trend.limit)
        /\ trend.totalItems = Cardinality(Eligible(trend.atCount, trend.nowCount))

\* Page 2 of two eligible records that tie on score and differ in upvotes.
C7_Witness ==
    /\ TrendAnswered
    /\ trend.page = 2
    /\ Len(trend.trendingMemes) = 1
    /\ \E a, b \in Eligible(trend.atList, trend.nowList) :
          /\ a # b
          /\ ~HigherScore(trend.atList[a], trend.atList[b], trend.nowList)
          /\ ~HigherScore(trend.atList[b], trend.atList[a], trend.nowList)
          /\ trend.atList[a].upvotes > trend.atList[b].upvotes
          /\ TrendIds = <<b>>

\* C8: trendingScore is (2*upvotes + downloads) / (daysSinceCreation + 1)
\* rounded to 2 decimals (the hundredth nearest to the quotient), with the
\* age taken at query time; a record created at the query instant gets
\* exactly 2*upvotes + downloads; upvotes=10, downloads=5 at age 2 days
\* gives 8.33.
C8_ScoreFormula ==
    /\ TrendAnswered =>
          \A i \in DOMAIN trend.trendingMemes :
              LET e == trend.trendingMemes[i]
                  den == Age(e, trend.nowList) + DayTicks
              IN /\ 2 * Abs((100 * Weight(e) * DayTicks) - (e.trendingScore * den))
                        <= den
                 /\ Age(e, trend.nowList) = 0 => e.trendingScore = 100 * Weight(e)
    /\ RoundScaled(TrendingScore([upvotes |-> 10, downloads |-> 5, createdAt |-> 0],
                                 2 * DayTicks), 100) = 833

\* One entry created at the query instant with counters, and one whose
\* quotient is not a whole number of hundredths.
C8_Witness ==
    /\ TrendAnswered
    /\ \E i \in DOMAIN trend.trendingMemes :
          /\ Age(trend.trendingMemes[i], trend.nowList) = 0
          /\ trend.trendingMemes[i].trendingScore > 0
    /\ \E i \in DOMAIN trend.trendingMemes :
          LET e == trend.trendingMemes[i]
          IN (100 * Weight(e) * DayTicks) % (Age(e, trend.nowList) + DayTicks) # 0

\* Ages (in ticks) inside the eligibility window.
DecayAges == {0, 1, DayTicks, 7 * DayTicks, TrendingWindowDays * DayTicks}

ScoreAtAge(doc, age) == TrendingScore(doc, doc.createdAt + age)

\* C9 as stated: for any fixed upvotes and downloads the score strictly
\* decreases as the age increases.
C9_StrictDecay ==
    \A id \in DOMAIN memes :
        \A score \in {[a \in DecayAges |-> ScoreAtAge(memes[id], a)]} :
            \A a1, a2 \in DecayAges : a1 < a2 => FracLess(score[a2], score[a1])

\* C9 amended: the score strictly decreases with age when the record has
\* an upvote or a download, and is 0 at every age when it has none.
C9_DecayWhenEngaged ==
    \A id \in DOMAIN memes :
        \A score \in {[a \in DecayAges |-> ScoreAtAge(memes[id], a)]} :
            \A a1, a2 \in DecayAges :
                a1 < a2 =>
                    IF Weight(memes[id]) > 0
                    THEN FracLess(score[a2], score[a1])
                    ELSE score[a1].num = 0 /\ score[a2].num = 0

\* Two records with the same counters were ranked, the younger first.
C9_Witness ==
    /\ TrendAnswered
    /\ Len(trend.trendingMemes) = 2
    /\ Weight(trend.trendingMemes[1]) > 0
    /\ trend.trendingMemes[1].upvotes = trend.trendingMemes[2].upvotes
    /\ trend.trendingMemes[1].downloads = trend.trendingMemes[2].downloads
    /\ trend.trendingMemes[1].createdAt > trend.trendingMemes[2].createdAt
    /\ trend.trendingMemes[1].trendingScore > trend.trendingMemes[2].trendingScore

\* The records created within the 7 days before the request.
Recent(coll, sevenDaysAgo) ==
    {id \in DOMAIN coll : coll[id].createdAt >= sevenDaysAgo}

\* The recent records carrying a tag.
Carrying(coll, sevenDaysAgo, tag) ==
    {id \in Recent(coll, sevenDaysAgo) : tag \in Range(coll[id].tags)}

RECURSIVE SumWeight(_, _)
SumWeight(coll, ids) ==
    IF ids = {} THEN 0
    ELSE LET id == CHOOSE x \in ids : TRUE
         IN Weight(coll[id]) + SumWeight(coll, ids \ {id})

\* Tag a beats tag b: higher average weight over its records, then more
\* records.
TagBeats(coll, sevenDaysAgo, a, b) ==
    LET ra == Carrying(coll, sevenDaysAgo, a)
        rb == Carrying(coll, sevenDaysAgo, b)
        sa == SumWeight(coll, ra) * Cardinality(rb)
        sb == SumWeight(coll, rb) * Cardinality(ra)
    IN sa > sb \/ (sa = sb /\ Cardinality(ra) > Cardinality(rb))

\* C10: mostTrendingTag is computed from the records of the last 7 days
\* only: it is a tag with the highest per-tag average of 2*upvotes +
\* downloads over the tag's records, ties broken by the larger record
\* count, and it is null exactly when no record falls in the window.
C10_MostTrendingTag ==
    TrendAnswered =>
        LET recent == Recent(trend.atTags, trend.sevenDaysAgo)
            tags == UNION {Range(trend.atTags[id].tags) : id \in recent}
        IN /\ trend.tagStats = <<>> <=> recent = {}
           /\ trend.tagStats # <<>> =>
                 /\ trend.tagStats[1] \in tags
                 /\ \A other \in tags :
                       ~TagBeats(trend.atTags, trend.sevenDaysAgo, other,
                                 trend.tagStats[1])


(***************************************************************************)
(* SpecPopular: popular-tag requests over catalogues the program can hold: *)
(* a few records with the tag lists the generator can answer (a tag may be *)
(* listed twice), or up to MaxTagged records of one tag of which up to two *)
(* were voted up once.                                                     *)
(***************************************************************************)
MaxTagged == 8

PopTagLists ==
    {<< <<"a">> >>, << <<"a">>, <<"a">> >>, << <<"a">>, <<"b">> >>, << <<"b">> >>}

\* <<upvotes, downloads>> of a record.
PopVotes == {<<0, 0>>, <<1, 0>>, <<2, 1>>}

PopDocs ==
    {[MemeDoc(tags, <<"a">>, 0) EXCEPT !.upvotes = v[1], !.downloads = v[2]] :
        tags \in PopTagLists, v \in PopVotes}

\* n records tagged "a", the first k of them voted up once.
OneTagCatalogue(n, k) ==
    [i \in 1..n |->
        [MemeDoc(<< <<"a">> >>, <<"a">>, 0) EXCEPT
            !.upvotes = IF i <= k THEN 1 ELSE 0]]

PopCatalogues ==
    SeqsUpTo(PopDocs, MaxMemes)
    \cup UNION {{OneTagCatalogue(n, k) : k \in 0..Min(n, 2)} : n \in 1..MaxTagged}

PopLimitParams == {<<>>, <<0>>, <<1>>, <<2>>}

InitPopular ==
    /\ memes \in PopCatalogues
    /\ now = 0
    /\ reqs = [r \in ReqIds |-> IdleReq]
    /\ search = IdleSearch
    /\ trend = IdleTrend
    /\ popular = IdlePopular
    /\ listing = IdleListing
    /\ validated = IdleValidated
    /\ store = "up"
    /\ assist = IdleAssist
    /\ uploaded = IdleUpload
    /\ conn = IdleConn
    /\ auth = IdleAuth
    /\ sweep = <<>>

NextPopular == \E limitParam \in PopLimitParams : Popular(limitParam)

SpecPopular == InitPopular /\ [][NextPopular]_vars

(***************************************************************************)
(* Popular-tag properties.                                                 *)
(***************************************************************************)
PopularAnswered == popular.pc = "done" /\ popular.status = 200

\* The records whose tag sequence contains the tag.
Holders(coll, tag) == {id \in DOMAIN coll : tag \in Range(coll[id].tags)}

\* The sum of f over a set of record ids.
RECURSIVE SumOver(_, _)
SumOver(f, ids) ==
    IF ids = {} THEN 0
    ELSE LET id == CHOOSE x \in ids : TRUE
         IN f[id] + SumOver(f, ids \ {id})

\* C11: for every reported tag, count is the number of records whose tag
\* sequence contains it (a record counts once, also when it lists the tag
\* twice) and totalUpvotes / totalDownloads are the sums over those records.
C11_CountsRecordsOnce ==
    PopularAnswered =>
        \A i \in DOMAIN popular.popularTags :
            LET e == popular.popularTags[i]
                holders == Holders(popular.at, e.tag)
            IN /\ e.count = Cardinality(holders)
               /\ e.totalUpvotes =
                      SumOver([id \in DOMAIN popular.at |-> popular.at[id].upvotes],
                              holders)
               /\ e.totalDownloads =
                      SumOver([id \in DOMAIN popular.at |-> popular.at[id].downloads],
                              holders)

\* x / y in hundredths, a half rounded away from zero (x >= 0, y > 0).
HalfAwayHundredths(x, y) == ((200 * x) + y) \div (2 * y)

\* C12: avgUpvotes is totalUpvotes / count rounded to 2 decimals with
\* halves rounded away from zero (1 over 8 is reported as 0.13).
C12_AvgRoundsHalfAway ==
    PopularAnswered =>
        \A i \in DOMAIN popular.popularTags :
            popular.popularTags[i].avgUpvotes =
                HalfAwayHundredths(popular.popularTags[i].totalUpvotes,
                                   popular.popularTags[i].count)

\* a ranks strictly before b in the popular order.
MorePopular(a, b) ==
    \/ a.count > b.count
    \/ a.count = b.count /\ a.totalUpvotes > b.totalUpvotes

\* C13: a popular response has at most limit entries (30 when the request
\* gives no limit), as many as there are tags up to that, ordered by count
\* descending, ties by totalUpvotes descending, and no omitted tag ranks
\* before a returned one.
C13_TopByCountThenUpvotes ==
    PopularAnswered =>
        LET out == popular.popularTags
            all == PopularGroups(popular.at)
            returned == {out[i].tag : i \in DOMAIN out}
        IN /\ popular.param = <<>> => popular.limit = 30
           /\ popular.param # <<>> => popular.limit = popular.param[1]
           /\ Len(out) = Min(popular.limit, Cardinality(all))
           /\ \A i, j \in DOMAIN out : i < j => ~MorePopular(out[j], out[i])
           /\ \A t \in all \ returned : \A i \in DOMAIN out :
                  ~MorePopular(PopularStat(popular.at, t), out[i])

\* Limit 1 kept the tag with more upvotes of two tags with equal counts.
C13_Witness ==
    /\ PopularAnswered
    /\ popular.limit = 1
    /\ Len(popular.popularTags) = 1
    /\ \E t \in PopularGroups(popular.at) :
          /\ t # popular.popularTags[1].tag
          /\ PopularStat(popular.at, t).count = popular.popularTags[1].count
          /\ PopularStat(popular.at, t).totalUpvotes
                 < popular.popularTags[1].totalUpvotes


(***************************************************************************)
(* SpecPagination: calls of validatePagination on parameter texts.         *)
(***************************************************************************)
MaxParamLen == 3

ParamChars == {"0", "1", "9", "-", "a"}

ParamTexts == SeqsUpTo(ParamChars, MaxParamLen) \cup {Undefined}

InitPagination == Init

NextPagination == \E page, limit \in ParamTexts : Validate(page, limit)

SpecPagination == InitPagination /\ [][NextPagination]_vars

(***************************************************************************)
(* Pagination properties.                                                  *)
(***************************************************************************)
\* The text is an optionally signed decimal integer.
IsNumeric(text) ==
    LET body == IF text # <<>> /\ Head(text) = "-" THEN Tail(text) ELSE text
    IN body # <<>> /\ \A i \in DOMAIN body : body[i] \in Digits

\* C14 (range part): whatever the arguments, the result has page >= 1, a
\* limit in [1,100] and skip = (page-1)*limit >= 0.
C14_ResultInRange ==
    validated.pc = "done" =>
        /\ validated.result.page >= 1
        /\ validated.result.limit \in 1..100
        /\ validated.result.skip
               = (validated.result.page - 1) * validated.result.limit
        /\ validated.result.skip >= 0

\* C14: the range part, and a missing or non-numeric page yields page 1
\* and a missing or non-numeric limit yields limit 20.
C14_ValidatePagination ==
    /\ C14_ResultInRange
    /\ validated.pc = "done" =>
          /\ ~IsNumeric(validated.page) => validated.result.page = 1
          /\ ~IsNumeric(validated.limit) => validated.result.limit = 20


(***************************************************************************)
(* SpecPaging: one request at a time to search, trending, the listing or   *)
(* popular, with page and limit parameters that are missing, zero,         *)
(* positive or above the ceiling, over a catalogue built by uploads.       *)
(***************************************************************************)
MaxLimit == 100

PagingParams == {<<>>, <<0>>, <<1>>, <<2>>, <<MaxLimit + 1>>}

PagingQuery == <<"a", "a">>

NoRequest ==
    /\ search.pc = "idle"
    /\ trend.pc = "idle"
    /\ listing.pc = "idle"
    /\ popular.pc = "idle"

InitPaging == Init

NextPaging ==
    \/ /\ NoRequest
       /\ \E u \in SearchUploads : Upload(u.tags, u.description)
    \/ /\ NoRequest
       /\ \E page, limit \in PagingParams :
             SearchStart(PagingQuery, OrDefault(page, DefaultPage),
                         OrDefault(limit, DefaultLimit))
    \/ SearchFind
    \/ SearchCount
    \/ /\ NoRequest
       /\ \E page, limit \in PagingParams :
             TrendStart(OrDefault(page, DefaultPage), OrDefault(limit, DefaultLimit))
    \/ TrendList
    \/ TrendCount
    \/ TrendTagStats
    \/ /\ NoRequest
       /\ \E page, limit \in PagingParams :
             ListStart(OrDefault(page, DefaultPage), OrDefault(limit, DefaultLimit))
    \/ ListFind
    \/ ListCount
    \/ /\ NoRequest
       /\ \E limit \in PagingParams : Popular(limit)

SpecPaging == InitPaging /\ [][NextPaging]_vars

(***************************************************************************)
(* Paging properties.                                                      *)
(***************************************************************************)
\* C15: whatever page and limit the caller gives, the store queries of
\* search, trending and the listing run with skip >= 0 and a limit in
\* [1,100], the popular aggregation with a limit in [1,100], and no
\* response page holds more than 100 records.
C15_PageSizeBounded ==
    /\ search.storeCalls > 0 => search.skip >= 0 /\ search.limit \in 1..100
    /\ trend.storeCalls > 0 => trend.skip >= 0 /\ trend.limit \in 1..100
    /\ listing.storeCalls > 0 => listing.skip >= 0 /\ listing.limit \in 1..100
    /\ popular.storeCalls > 0 => popular.limit \in 1..100
    /\ Len(search.memes) <= 100
    /\ Len(trend.trendingMemes) <= 100
    /\ Len(listing.memes) <= 100
    /\ Len(popular.popularTags) <= 100

\* C16: a request with a non-positive page or limit is answered 400, never
\* 500 and never success.
C16_BadPagingRejected ==
    /\ (search.pc = "done" /\ (search.page <= 0 \/ search.limit <= 0))
           => search.status = 400
    /\ (trend.pc = "done" /\ (trend.page <= 0 \/ trend.limit <= 0))
           => trend.status = 400
    /\ (listing.pc = "done" /\ (listing.page <= 0 \/ listing.limit <= 0))
           => listing.status = 400
    /\ (popular.pc = "done" /\ popular.limit <= 0) => popular.status = 400


(***************************************************************************)
(* Counter invariants and frame properties (Spec).                         *)
(***************************************************************************)
\* Request r answers success in this step.
Succeeds(r) ==
    /\ reqs[r].pc # "done"
    /\ reqs'[r].pc = "done"
    /\ reqs'[r].status = 200

\* No counter of a stored record decreases in this step.
NoCounterDecreases ==
    \A id \in DOMAIN memes :
        /\ id \in DOMAIN memes'
        /\ memes'[id].upvotes >= memes[id].upvotes
        /\ memes'[id].downloads >= memes[id].downloads

\* C17: in every reachable catalogue upvotes >= 0 and downloads >= 0, a
\* record is created with both at 0, no step decreases a counter, and each
\* successful increment request raises its counter by exactly 1.
C17_CountersMonotone ==
    [][/\ \A id \in DOMAIN memes' :
              memes'[id].upvotes >= 0 /\ memes'[id].downloads >= 0
       /\ \A id \in (DOMAIN memes') \ (DOMAIN memes) :
              memes'[id].upvotes = 0 /\ memes'[id].downloads = 0
       /\ NoCounterDecreases
       /\ \A r \in ReqIds :
              Succeeds(r) =>
                  LET id == reqs'[r].memeId
                  IN IF reqs'[r].kind = "upvote"
                     THEN memes'[id].upvotes = memes[id].upvotes + 1
                     ELSE memes'[id].downloads = memes[id].downloads + 1]_vars


\* Request r is answered in this step.
Answers(r) == reqs[r].pc # "done" /\ reqs'[r].pc = "done"

\* C18: an update-upvote or track-downloads request whose non-empty memeId
\* is not the id of a stored record is answered 404 and leaves the
\* catalogue unchanged.
C18_UnknownIdIs404 ==
    [][\A r \in ReqIds :
          (/\ Answers(r)
           /\ reqs'[r].memeId # 0
           /\ reqs'[r].memeId \notin DOMAIN memes)
              => reqs'[r].status = 404 /\ memes' = memes]_vars

\* The catalogue after a step that changed nothing but the given counter
\* (and updatedAt) of record id.
OnlyUpvotesOf(id) ==
    memes' = [memes EXCEPT ![id].upvotes = memes'[id].upvotes,
                           ![id].updatedAt = memes'[id].updatedAt]

OnlyDownloadsOf(id) ==
    memes' = [memes EXCEPT ![id].downloads = memes'[id].downloads,
                           ![id].updatedAt = memes'[id].updatedAt]

\* C19: a successful update-upvote changes nothing but the upvotes (and
\* updatedAt) of its record, a successful track-downloads nothing but the
\* downloads (and updatedAt) of its record, a request that does not succeed
\* changes nothing, and no step changes a stored record's createdAt.
C19_IncrementFrame ==
    [][/\ \A r \in ReqIds :
              /\ (Succeeds(r) /\ reqs'[r].kind = "upvote")
                     => OnlyUpvotesOf(reqs'[r].memeId)
              /\ (Succeeds(r) /\ reqs'[r].kind = "download")
                     => OnlyDownloadsOf(reqs'[r].memeId)
              /\ (reqs'[r] # reqs[r] /\ ~Succeeds(r)) => memes' = memes
       /\ \A id \in DOMAIN memes :
              /\ id \in DOMAIN memes'
              /\ memes'[id].createdAt = memes[id].createdAt]_vars

\* A record was voted up after it had been downloaded, next to another
\* record that no request touched.
C19_Witness ==
    /\ Len(memes) = 2
    /\ memes[1].downloads = 1
    /\ memes[1].upvotes = 1
    /\ memes[2].upvotes = 0
    /\ memes[2].downloads = 0
    /\ \E r1, r2 \in ReqIds :
          /\ reqs[r1].pc = "done" /\ reqs[r1].kind = "download"
          /\ reqs[r1].status = 200 /\ reqs[r1].memeId = 1
          /\ reqs[r2].pc = "done" /\ reqs[r2].kind = "upvote"
          /\ reqs[r2].status = 200 /\ reqs[r2].memeId = 1

IsLowerCase(str) == ToLowerCase(str) = str

\* C20: every stored record has a non-empty tag sequence of lowercase
\* strings of length 1..50 and a lowercase description of at most 500
\* characters.
C20_UploadNormalises ==
    \A id \in DOMAIN memes :
        /\ memes[id].tags # <<>>
        /\ \A k \in DOMAIN memes[id].tags :
              /\ Len(memes[id].tags[k]) \in 1..50
              /\ IsLowerCase(memes[id].tags[k])
        /\ IsLowerCase(memes[id].description)
        /\ Len(memes[id].description) <= 500

(***************************************************************************)
(* SpecReads: one read request at a time (search, search-assist, trending, *)
(* popular or the listing) while uploads go on and the store goes down and *)
(* comes back at any moment.                                               *)
(***************************************************************************)
ReadQueries == {<<>>, <<"a", "a">>, <<"a", ".">>, <<".">>}

NoReadRequest == NoRequest /\ assist.pc = "idle"

InitReads == Init

NextReads ==
    \/ \E u \in SearchUploads : Upload(u.tags, u.description)
    \/ StoreFails
    \/ StoreRecovers
    \/ /\ NoReadRequest
       /\ \E q \in ReadQueries : \E pl \in Paging : SearchStart(q, pl[1], pl[2])
    \/ SearchFind
    \/ SearchCount
    \/ /\ NoReadRequest
       /\ \E q \in ReadQueries : SearchAssist(q)
    \/ /\ NoReadRequest
       /\ \E pl \in Paging : TrendStart(pl[1], pl[2])
    \/ TrendList
    \/ TrendCount
    \/ TrendTagStats
    \/ /\ NoReadRequest
       /\ \E pl \in Paging : ListStart(pl[1], pl[2])
    \/ ListFind
    \/ ListCount
    \/ /\ NoReadRequest
       /\ \E limit \in PopLimitParams : Popular(limit)

SpecReads == InitReads /\ [][NextReads]_vars

(***************************************************************************)
(* Read-path properties.                                                   *)
(***************************************************************************)
\* A step of a read handler: its request record changes.
ReadStep ==
    \/ search' # search
    \/ assist' # assist
    \/ trend' # trend
    \/ popular' # popular
    \/ listing' # listing

\* C21: no step of a search, search-assist, trending, popular or listing
\* request - whether the request goes on to succeed, fails or is left
\* part-way - changes the catalogue.
C21_ReadsLeaveCatalogue == [][ReadStep => memes' = memes]_vars

\* A listing request has run both its queries over a non-empty catalogue
\* and returned records.
C21_Witness ==
    /\ memes # <<>>
    /\ listing.pc = "done"
    /\ listing.status = 200
    /\ listing.memes # <<>>

\* The store accesses a successful response needs.
SearchAccesses == 2

TrendAccesses == 3

PopularAccesses == 1

\* C25: a search, trending or popular step that reaches the store while it
\* is down ends the request with status 500 after that one access (no
\* retry); a success response has made every store access of its handler.
C25_FailureStep ==
    store = "down" =>
        /\ (search' # search /\ search.pc \in {"find", "count"}) =>
               /\ search'.pc = "done"
               /\ search'.status = 500
               /\ search'.storeCalls = search.storeCalls + 1
        /\ (trend' # trend /\ trend.pc \in {"list", "count", "tags"}) =>
               /\ trend'.pc = "done"
               /\ trend'.status = 500
               /\ trend'.storeCalls = trend.storeCalls + 1
        /\ (popular' # popular) =>
               /\ popular'.pc = "done"
               /\ popular'.status = 500
               /\ popular'.storeCalls = 1

C25_SuccessIsComplete ==
    /\ search.status = 200 => search.storeCalls = SearchAccesses
    /\ trend.status = 200 => trend.storeCalls = TrendAccesses
    /\ popular.status = 200 => popular.storeCalls = PopularAccesses

C25_StoreFailureIs500 == []C25_SuccessIsComplete /\ [][C25_FailureStep]_vars

\* A trending request whose page and count queries succeeded and whose tag
\* pipeline failed.
C25_Witness ==
    /\ trend.pc = "done"
    /\ trend.status = 500
    /\ trend.storeCalls = TrendAccesses
    /\ trend.skip >= 0
    /\ trend.limit > 0

\* C22: every search and trending response that returns records satisfies
\* skip + (number returned) <= pagination.totalItems, with
\* skip = (current - 1) * limit - also when the clock carries a record over
\* the 30-day boundary between the page query and the count query.
C22_PageWithinTotal ==
    /\ (search.pc = "done" /\ search.status = 200 /\ search.memes # <<>>) =>
           /\ search.skip = (search.page - 1) * search.limit
           /\ search.skip + Len(search.memes) <= search.totalItems
    /\ (trend.pc = "done" /\ trend.status = 200 /\ trend.trendingMemes # <<>>) =>
           /\ trend.skip = (trend.page - 1) * trend.limit
           /\ trend.skip + Len(trend.trendingMemes) <= trend.totalItems

(***************************************************************************)
(* SpecSweep: over a catalogue that does not change and at one clock       *)
(* reading, a caller requests page 1, 2, .. of search (or of trending)     *)
(* with one limit, up to the page count the responses report.  sweep holds *)
(* the pages received so far.                                              *)
(***************************************************************************)
SweepQuery == <<"a", "a">>

SweepLimits == {1, 2}

SweepCreatedAts == {0, 1}

SweepDocs ==
    {[MemeDoc(<< <<"a", "a">> >>, <<>>, t) EXCEPT !.upvotes = u] :
        t \in SweepCreatedAts, u \in 0..1}

SweepCatalogues == UNION {[1..n -> SweepDocs] : n \in 2..(MaxMemes + 1)}

InitSweep ==
    /\ memes \in SweepCatalogues
    /\ now = DayTicks
    /\ reqs = [r \in ReqIds |-> IdleReq]
    /\ search = IdleSearch
    /\ trend = IdleTrend
    /\ popular = IdlePopular
    /\ listing = IdleListing
    /\ validated = IdleValidated
    /\ store = "up"
    /\ assist = IdleAssist
    /\ uploaded = IdleUpload
    /\ conn = IdleConn
    /\ auth = IdleAuth
    /\ sweep = <<>>

\* The sweep has every page the last response announced.
SweepComplete == sweep # <<>> /\ Len(sweep) >= sweep[Len(sweep)].total

\* The caller stores a page of search and is ready for the next request.
SweepCollectSearch ==
    /\ SearchAnswered
    /\ sweep' = Append(sweep, [kind |-> "search", ids |-> ResponseIds,
                               limit |-> search.limit, total |-> search.total])
    /\ search' = IdleSearch
    /\ UNCHANGED <<memes, now, reqs, trend, popular, listing, validated,
                   store, assist, uploaded, conn, auth>>

\* The caller stores a page of trending and is ready for the next request.
SweepCollectTrend ==
    /\ TrendAnswered
    /\ sweep' = Append(sweep, [kind |-> "trending", ids |-> TrendIds,
                               limit |-> trend.limit, total |-> trend.total])
    /\ trend' = IdleTrend
    /\ UNCHANGED <<memes, now, reqs, search, popular, listing, validated,
                   store, assist, uploaded, conn, auth>>

NextSweep ==
    \/ /\ sweep = <<>>
       /\ trend.pc = "idle"
       /\ \E limit \in SweepLimits : SearchStart(SweepQuery, 1, limit)
    \/ /\ sweep # <<>>
       /\ ~SweepComplete
       /\ sweep[1].kind = "search"
       /\ SearchStart(SweepQuery, Len(sweep) + 1, sweep[1].limit)
    \/ SearchFind
    \/ SearchCount
    \/ SweepCollectSearch
    \/ /\ sweep = <<>>
       /\ search.pc = "idle"
       /\ \E limit \in SweepLimits : TrendStart(1, limit)
    \/ /\ sweep # <<>>
       /\ ~SweepComplete
       /\ sweep[1].kind = "trending"
       /\ TrendStart(Len(sweep) + 1, sweep[1].limit)
    \/ TrendList
    \/ TrendCount
    \/ TrendTagStats
    \/ SweepCollectTrend

SpecSweep == InitSweep /\ [][NextSweep]_vars

\* The pages of the sweep, concatenated.
RECURSIVE SweepIds(_)
SweepIds(pages) ==
    IF pages = <<>> THEN <<>> ELSE pages[1].ids \o SweepIds(Tail(pages))

\* How often id occurs in seq.
Occurrences(seq, id) == Cardinality({i \in DOMAIN seq : seq[i] = id})

\* The records the sweep has to cover.
SweepExpected ==
    IF sweep[1].kind = "search"
    THEN Matching(memes, CombinedRegex(SearchWords(SweepQuery)))
    ELSE Trending(memes, now)

\* C23: on an unchanging catalogue, the pages 1 .. ceil(totalItems / limit)
\* of search (or of trending at one instant), concatenated, hold every
\* matching (eligible) record exactly once - also when records tie on
\* every sort key.
C23_PagesPartition ==
    SweepComplete =>
        /\ Range(SweepIds(sweep)) = SweepExpected
        /\ \A id \in SweepExpected : Occurrences(SweepIds(sweep), id) = 1

\* The same statement for catalogues in which no two records have the same
\* createdAt (search) or the same score, upvotes and createdAt (trending).
SweepHasTie ==
    \E i, j \in DOMAIN memes :
        /\ i # j
        /\ memes[i].createdAt = memes[j].createdAt
        /\ sweep[1].kind = "trending" => memes[i].upvotes = memes[j].upvotes

C23_PartitionWithoutTies == (SweepComplete /\ ~SweepHasTie) => C23_PagesPartition

(***************************************************************************)
(* SpecReorder: search requests whose queries are one or two tokens, in    *)
(* either order, over a catalogue built by uploads.  A token may end in a  *)
(* backslash.                                                              *)
(***************************************************************************)
ReorderTokens == {<<"a", "a">>, <<"a", "b">>, <<".", "a">>, <<"a", "\\">>}

ReorderQueries ==
    ReorderTokens \cup {t1 \o <<" ">> \o t2 : t1, t2 \in ReorderTokens}

InitReorder == Init

NextReorder ==
    \/ /\ search.pc = "idle"
       /\ \E u \in SearchUploads : Upload(u.tags, u.description)
    \/ \E q \in ReorderQueries : \E pl \in Paging : SearchStart(q, pl[1], pl[2])
    \/ SearchFind
    \/ SearchCount

SpecReorder == InitReorder /\ [][NextReorder]_vars

\* The token lists that hold the tokens of words in another order.
Reorderings(words) ==
    {[i \in DOMAIN words |-> words[p[i]]] : p \in Orders(DOMAIN words)}

\* C24: a query made of the same tokens in another order is answered like
\* the query itself: it selects the same records and gives every returned
\* record the same relevanceScore.
C24_TokenOrderIrrelevant ==
    SearchAnswered =>
        \A words \in Reorderings(search.searchWords) :
            /\ RegexValid(CombinedRegex(words))
            /\ Matching(search.atCount, CombinedRegex(words))
                   = Matching(search.atCount, CombinedRegex(search.searchWords))
            /\ \A i \in DOMAIN search.memes :
                   RelevanceScore(search.atFind[search.memes[i].id], words)
                       = search.memes[i].relevanceScore

(***************************************************************************)
(* SpecUpload: one upload request whose collaborators each succeed or      *)
(* fail, while the store goes down and comes back at any moment.           *)
(***************************************************************************)
UploadBodies == {<<>>, <<" ">>, <<"H", "i">>}

TagsReplies ==
    {[ok |-> FALSE, tags |-> <<>>],
     [ok |-> TRUE, tags |-> <<>>],
     [ok |-> TRUE, tags |-> << <<"c", "a", "t">> >>]}

LongReplyLength == 101

DescriptionReplies ==
    {[ok |-> FALSE, text |-> <<>>],
     [ok |-> TRUE, text |-> <<>>],
     [ok |-> TRUE, text |-> <<"\"", "C", "a", "t", "\n", "a", "t", " ", "w",
                              "o", "r", "k", "\"", " ">>],
     [ok |-> TRUE, text |-> [i \in 1..LongReplyLength |-> "a"]]}

InitUpload == Init

NextUpload ==
    \/ \E hasFile, storageOk \in BOOLEAN :
          \E body \in UploadBodies :
             \E tagsReply \in TagsReplies :
                \E descriptionReply \in DescriptionReplies :
                   UploadStart(hasFile, body, storageOk, tagsReply,
                               descriptionReply)
    \/ UploadInsert
    \/ UploadReadBack
    \/ StoreFails
    \/ StoreRecovers

SpecUpload == InitUpload /\ [][NextUpload]_vars

\* An upload has ended after a generator failed, with the image stored.
AiFailedUpload ==
    /\ uploaded.pc = "done"
    /\ uploaded.hasFile
    /\ uploaded.storageOk
    /\ uploaded.tagsFailed \/ uploaded.descriptionFailed

\* The inserted record holds the fallback value of every generator that
\* failed.
FallbacksStored ==
    /\ uploaded.tagsFailed => memes[uploaded.id].tags = FallbackTags
    /\ uploaded.descriptionFailed =>
           memes[uploaded.id].description = ToLowerCase(FallbackDescription)

\* C26 as stated: when a generator failed and the image store and the
\* insert succeeded, the record holds the fallback values and the response
\* is 201.
C26_AiFailureStill201 ==
    (AiFailedUpload /\ uploaded.id # 0) =>
        /\ FallbacksStored
        /\ uploaded.status = 201

\* C26, amended: a generator failure alone never blocks the upload - the
\* response is 201 unless a store call failed; the inserted record holds the
\* fallback values; and the response is 201 when the insert and the
\* read-back of the inserted record both succeeded.
C26_AiFailureNeverBlocks ==
    AiFailedUpload =>
        /\ uploaded.status = 201 \/ uploaded.storeFailed
        /\ uploaded.status = 201 => uploaded.id # 0
        /\ uploaded.id # 0 => FallbacksStored
        /\ (uploaded.id # 0 /\ ~uploaded.storeFailed) => uploaded.status = 201

\* Both generators failed and the upload was answered 201 with the
\* fallback tags and description stored.
C26_Witness ==
    /\ AiFailedUpload
    /\ uploaded.tagsFailed
    /\ uploaded.descriptionFailed
    /\ uploaded.status = 201
    /\ memes[uploaded.id].tags = FallbackTags
    /\ memes[uploaded.id].description = ToLowerCase(FallbackDescription)

(***************************************************************************)
(* SpecAssist: one search-assist request over a stored catalogue, while    *)
(* the store goes down and comes back.                                     *)
(***************************************************************************)
AssistTagLists ==
    {<<>>,
     << <<"a">> >>,
     << <<"a", "b">> >>,
     << <<"a">>, <<"a", "b">> >>,
     << <<"b">>, <<"b">>, <<"b">>, <<"a", "b">> >>}

AssistCatalogues ==
    UNION {[1..n -> {MemeDoc(tags, <<>>, 0) : tags \in AssistTagLists}] :
              n \in 0..MaxMemes}

AssistQueries == {<<>>, <<"a">>, <<"A">>, <<"b">>, <<".">>, <<"a", "\\">>}

InitAssist ==
    /\ memes \in AssistCatalogues
    /\ now = 0
    /\ reqs = [r \in ReqIds |-> IdleReq]
    /\ search = IdleSearch
    /\ trend = IdleTrend
    /\ popular = IdlePopular
    /\ listing = IdleListing
    /\ validated = IdleValidated
    /\ store = "up"
    /\ assist = IdleAssist
    /\ uploaded = IdleUpload
    /\ conn = IdleConn
    /\ auth = IdleAuth
    /\ sweep = <<>>

NextAssist ==
    \/ \E q \in AssistQueries : SearchAssist(q)
    \/ StoreFails
    \/ StoreRecovers

SpecAssist == InitAssist /\ [][NextAssist]_vars

\* The number of records of coll that carry tag.
RecordsCarrying(coll, tag) == Cardinality(Holders(coll, tag))

\* C27: a search-assist response holds at most 10 tags; each contains the
\* query as a case-insensitive substring and is a tag of some record; the
\* tags come by descending number of records that carry them; without a
\* query the list is empty and the store is not accessed.
C27_Suggestions ==
    assist.pc = "done" =>
        /\ assist.q = <<>> =>
               /\ assist.status = 200
               /\ assist.tags = <<>>
               /\ assist.storeCalls = 0
        /\ assist.status = 200 =>
               /\ Len(assist.tags) <= AssistLimit
               /\ \A i \in DOMAIN assist.tags :
                      /\ Includes(ToLowerCase(assist.tags[i]),
                                  ToLowerCase(assist.q))
                      /\ RecordsCarrying(assist.at, assist.tags[i]) >= 1
               /\ \A i, j \in DOMAIN assist.tags : i < j =>
                      RecordsCarrying(assist.at, assist.tags[i])
                          >= RecordsCarrying(assist.at, assist.tags[j])

\* The same statement with the ordering clause left out.
C27_LiteralSubstring ==
    (assist.pc = "done" /\ assist.status = 200) =>
        \A i \in DOMAIN assist.tags :
            Includes(ToLowerCase(assist.tags[i]), ToLowerCase(assist.q))

\* The ordering clause alone.
C27_OrderedByRecords ==
    (assist.pc = "done" /\ assist.status = 200) =>
        \A i, j \in DOMAIN assist.tags : i < j =>
            RecordsCarrying(assist.at, assist.tags[i])
                >= RecordsCarrying(assist.at, assist.tags[j])

(***************************************************************************)
(* SpecConnect: concurrent and repeated calls of connectToDB.              *)
(***************************************************************************)
InitConnect == Init

NextConnect ==
    \E c \in Callers :
        \/ ConnectToDB(c)
        \/ ConnectResolves(c)
        \/ ConnectRejects(c)
        \/ CallerDone(c)

SpecConnect == InitConnect /\ [][NextConnect]_vars

\* C28: no caller holds a db handle that was returned before the shared
\* client's connect() had resolved, and at most one MongoClient is ever
\* constructed.
C28_HandleOnlyAfterConnect ==
    /\ \A c \in Callers :
           conn.callers[c].pc = "returned" => conn.callers[c].connected
    /\ conn.created <= 1

\* The second half of C28 alone.
C28_OneClient == conn.created <= 1

\* A call is made after a connect() that rejected, with no handle cached.
CallAfterFailure(c) ==
    /\ conn.connect = "failed"
    /\ ~conn.db
    /\ conn.callers[c].pc = "idle"
    /\ conn'.callers[c].pc # "idle"

\* C29: when connect() rejects, the call rejects and caches no db handle,
\* and the next call attempts connect() again.
C29_RetryStep ==
    \A c \in Callers :
        /\ (conn.callers[c].pc = "awaiting" /\ conn'.connect = "failed") =>
               /\ conn'.callers[c].pc = "rejected"
               /\ conn'.db = conn.db
        /\ CallAfterFailure(c) =>
               /\ conn'.connects = conn.connects + 1
               /\ conn'.callers[c].attempted

C29_FailedConnectRetryable == [][C29_RetryStep]_vars

(***************************************************************************)
(* SpecAuth: requests passing through authenticate or optionalAuth.        *)
(***************************************************************************)
LookupOutcomes == {"found", "missing", "error"}

InitAuth == Init

NextAuth ==
    \E r \in AuthReqs :
        \/ \E sessionUser \in BOOLEAN : \E header \in Headers :
              Authenticate(r, sessionUser, header)
        \/ \E outcome \in LookupOutcomes : AuthenticateLookup(r, outcome)
        \/ \E sessionUser \in BOOLEAN : \E header \in Headers :
              OptionalAuth(r, sessionUser, header)
        \/ \E outcome \in LookupOutcomes : OptionalAuthLookup(r, outcome)

SpecAuth == InitAuth /\ [][NextAuth]_vars

\* The request came with a session user, or with a token signed by the
\* server whose user exists.
Authenticated(a) ==
    \/ a.sessionUser
    \/ /\ a.header.present
       /\ a.header.token = "signed"
       /\ a.lookup = "found"

\* C30: authenticate calls next() exactly when the request has a session
\* user or a token that verifies and resolves to an existing user, and
\* otherwise answers 401; on every path exactly one of the two happens.
\* optionalAuth calls next() exactly once on every path and never sends an
\* error response.
C30_AuthOutcome ==
    \A r \in AuthReqs :
        /\ auth[r].nextCalls + auth[r].unauthorized <= 1
        /\ (auth[r].pc = "done" /\ auth[r].kind = "authenticate") =>
               /\ auth[r].nextCalls + auth[r].unauthorized = 1
               /\ auth[r].nextCalls = 1 <=> Authenticated(auth[r])
        /\ (auth[r].pc = "done" /\ auth[r].kind = "optionalAuth") =>
               /\ auth[r].nextCalls = 1
               /\ auth[r].unauthorized = 0

\* One request passed authenticate by its token alone, and another went
\* through optionalAuth after its user lookup failed.
C30_Witness ==
    \E r1, r2 \in AuthReqs :
        /\ auth[r1].pc = "done"
        /\ auth[r1].kind = "authenticate"
        /\ ~auth[r1].sessionUser
        /\ auth[r1].nextCalls = 1
        /\ auth[r2].pc = "done"
        /\ auth[r2].kind = "optionalAuth"
        /\ auth[r2].lookup = "error"
        /\ auth[r2].nextCalls = 1
====
